---------------------------- MODULE Spec2Model ----------------------------
(***************************************************************************)
(* edu-vm (UVM variant 9): the instruction codec, the assembler           *)
(* (src/src/assembler.py: to_ir, encode_instr, assemble, main), the       *)
(* interpreter (src/src/interpreter.py: the loop, the instructions, the   *)
(* memory dump) and the worker of the GUI (src/src/gui/main_gui.py).      *)
(*                                                                         *)
(* Python integers are unbounded and an instruction word uses all 32 bits, *)
(* so a word is kept as its binary expansion: a sequence of bits, least    *)
(* significant first, without high zero bits (0 is <<>>).  >>, <<, & and | *)
(* are defined on that expansion.  Operand values, register contents and   *)
(* memory cells are ordinary integers.                                     *)
(***************************************************************************)
EXTENDS Integers, Sequences, FiniteSets, TLC

VARIABLES
    code_bytes,     \* run_binary_bytes: the byte buffer being executed
    regs_count,     \* run_binary_bytes: configured number of registers
    data_mem_size,  \* run_binary_bytes: configured number of memory words
    state,          \* the dict {"regs": [...], "data_mem": [...]}
    pc,             \* run_binary_bytes: byte offset of the next word
    cmd_int,        \* the word handed to decode_and_execute_one
    status,         \* "running" | "halted" (returned) | "fault" (raised)
    error,          \* the exception that ended the run, or "none"
    executed,       \* history: offsets of the words executed without fault
    ir_list,        \* assemble: its argument
    asm_i,          \* assemble: index of the next record of the for loop
    binary,         \* assemble: the local bytearray
    asm_status,     \* "idle" | "running" | "returned" | "raised"
    yaml_program,   \* to_ir: its argument, the list of YAML entries
    ir_built,       \* to_ir: the local list ir
    ir_idx,         \* to_ir: position of the next entry of the for loop
    ir_status,      \* "idle" | "running" | "returned" | "raised"
    ir_error,       \* to_ir: the exception raised, [kind, idx]
    out_file,       \* assembler.main: the output file
    run_arg,        \* AssembleRunWorker.run: the bytes given to the interpreter
    caller,         \* who runs the interpreter: "run_program" | "worker"
    dump_range,     \* run_program: dump_range, <<>> for None
    dump,           \* the dump: the CSV file / the memory table
    heap,           \* the lists allocated by concurrent invocations
    runs,           \* the concurrent invocations: their locals
    assemble_run_btn,  \* UVMGUI: the button "Assemble & Run" is enabled
    current_worker, \* UVMGUI._current_worker: a worker's number, 0 for None
    workers,        \* the AssembleRunWorker threads created so far
    events,         \* the signals queued for the main thread, oldest first
    mem_table,      \* UVMGUI.mem_table: its rows
    gui_log         \* UVMGUI.log: what the slots appended

vars == <<code_bytes, regs_count, data_mem_size, state, pc, cmd_int, status,
          error, executed, ir_list, asm_i, binary, asm_status,
          yaml_program, ir_built, ir_idx, ir_status, ir_error, out_file,
          run_arg, caller, dump_range, dump, heap, runs, assemble_run_btn,
          current_worker, workers, events, mem_table, gui_log>>

run_vars == <<code_bytes, regs_count, data_mem_size, state, pc, cmd_int,
              status, error, executed>>

asm_vars == <<ir_list, asm_i, binary, asm_status>>

to_ir_vars == <<yaml_program, ir_built, ir_idx, ir_status, ir_error>>

pipe_vars == <<out_file, run_arg>>

dump_vars == <<caller, dump_range, dump>>

pair_vars == <<heap, runs>>

gui_vars == <<assemble_run_btn, current_worker, workers, events, mem_table,
              gui_log>>

----------------------------------------------------------------------------
(* Program constants *)

INSTR_SIZE == 4

LOAD_CONST == 29

READ_MEM == 4

WRITE_MEM == 43

SQRT == 2

DEFAULT_REGS == 32

DEFAULT_MEM == 65536

----------------------------------------------------------------------------
(* Bounds of the model *)

\* longest byte buffer, in whole words
MaxWords == 3

\* longest IR list handed to assemble
MaxIR == 2

\* calls of decode_and_execute_one made by a direct caller
MaxCalls == 1

\* longest YAML program handed to to_ir
MaxEntries == 3

----------------------------------------------------------------------------
(* Python int as a binary expansion *)

\* the expansion without its high zero bits
RECURSIVE Trim(_)
Trim(b) ==
    IF b = <<>> THEN <<>>
    ELSE IF b[Len(b)] = 1 THEN b
    ELSE Trim(SubSeq(b, 1, Len(b) - 1))

RECURSIVE NatToBits(_)
NatToBits(n) ==
    IF n = 0 THEN <<>> ELSE <<n % 2>> \o NatToBits(n \div 2)

RECURSIVE BitsToNat(_)
BitsToNat(b) ==
    IF b = <<>> THEN 0 ELSE b[1] + 2 * BitsToNat(Tail(b))

BitAt(b, i) == IF i <= Len(b) THEN b[i] ELSE 0

Max2(a, b) == IF a >= b THEN a ELSE b

Min2(a, b) == IF a <= b THEN a ELSE b

\* x >> k
Shr(x, k) == SubSeq(x, k + 1, Len(x))

\* x << k
Shl(x, k) == IF x = <<>> THEN <<>> ELSE [i \in 1..k |-> 0] \o x

\* x & y
BitAnd(x, y) == Trim([i \in 1..Min2(Len(x), Len(y)) |-> x[i] * y[i]])

\* x | y
BitOr(x, y) ==
    [i \in 1..Max2(Len(x), Len(y)) |-> Max2(BitAt(x, i), BitAt(y, i))]

\* val.to_bytes(length, "little"): OverflowError when val needs more bytes
to_bytes(val, length) ==
    IF Len(val) > 8 * length
    THEN [ok |-> FALSE, error |-> "OverflowError", bytes |-> <<>>]
    ELSE [ok |-> TRUE, error |-> "none",
          bytes |-> [k \in 1..length |->
                       BitsToNat([j \in 1..8 |-> BitAt(val, 8 * (k - 1) + j)])]]

\* a byte 0..255 as exactly 8 bits
ByteBits(byte) == [j \in 1..8 |-> (byte \div (2 ^ (j - 1))) % 2]

\* int.from_bytes(bytes, "little")
RECURSIVE from_bytes_raw(_)
from_bytes_raw(bytes) ==
    IF bytes = <<>> THEN <<>>
    ELSE ByteBits(bytes[1]) \o from_bytes_raw(Tail(bytes))

from_bytes(bytes) == Trim(from_bytes_raw(bytes))

----------------------------------------------------------------------------
(* src/utils.py: mask and pack_fields, as section 4.1 of the             *)
(* specification describes the codec.                                      *)

\* mask(n): the n low bits set
mask(n) == [i \in 1..n |-> 1]

RECURSIVE OrShifted(_)
OrShifted(fields) ==
    IF fields = <<>> THEN <<>>
    ELSE BitOr(Shl(NatToBits(fields[1][1]), fields[1][2]),
               OrShifted(Tail(fields)))

\* pack_fields([(value, offset, width), ...]): the union of the shifted
\* fields; fails when a value does not fit its width
pack_fields(fields) ==
    IF \E i \in DOMAIN fields :
          fields[i][1] < 0 \/ fields[i][1] >= 2 ^ fields[i][3]
    THEN [ok |-> FALSE, error |-> "RangeError", val |-> <<>>]
    ELSE [ok |-> TRUE, error |-> "none", val |-> OrShifted(fields)]

----------------------------------------------------------------------------
(* assembler.py *)

\* the register field one bit too low, over the top bit of the value
LOAD_CONST_fields_overlap(ir) ==
    << <<LOAD_CONST, 0, 6>>, <<ir.value, 6, 20>>, <<ir.reg, 25, 5>> >>

\* the value field declared one bit too wide
LOAD_CONST_fields_wide(ir) ==
    << <<LOAD_CONST, 0, 6>>, <<ir.value, 6, 21>>, <<ir.reg, 26, 5>> >>

\* the (value, offset, width) lists encode_instr hands to pack_fields
LOAD_CONST_fields(ir) ==
    << <<LOAD_CONST, 0, 6>>, <<ir.value, 6, 20>>, <<ir.reg, 26, 5>> >>

READ_MEM_fields(ir) ==
    << <<READ_MEM, 0, 6>>, <<ir.reg, 6, 5>>, <<ir.addr, 11, 19>> >>

WRITE_MEM_fields(ir) ==
    << <<WRITE_MEM, 0, 6>>, <<ir.addr, 6, 19>>, <<ir.src_reg, 25, 5>> >>

SQRT_fields(ir) ==
    << <<SQRT, 0, 6>>, <<ir.reg, 6, 5>>, <<ir.addr, 11, 19>> >>

\* val = pack_fields(...); return val.to_bytes(INSTR_SIZE, "little")
pack_to_bytes(fields) ==
    LET val == pack_fields(fields)
    IN  IF ~val.ok
        THEN [ok |-> FALSE, error |-> val.error, bytes |-> <<>>]
        ELSE to_bytes(val.val, INSTR_SIZE)

encode_instr(ir) ==
    IF ir.cmd = "LOAD_CONST" THEN pack_to_bytes(LOAD_CONST_fields(ir))
    ELSE IF ir.cmd = "READ_MEM" THEN pack_to_bytes(READ_MEM_fields(ir))
    ELSE IF ir.cmd = "WRITE_MEM" THEN pack_to_bytes(WRITE_MEM_fields(ir))
    ELSE IF ir.cmd = "SQRT" THEN pack_to_bytes(SQRT_fields(ir))
    ELSE [ok |-> FALSE, error |-> "UnknownIRCommand", bytes |-> <<>>]

\* the encoded word is put in front of the bytes already there
AsmStep_prepend ==
    /\ asm_status = "running"
    /\ asm_i <= Len(ir_list)
    /\ LET enc == encode_instr(ir_list[asm_i])
       IN  IF enc.ok
           THEN /\ binary' = enc.bytes \o binary
                /\ asm_i' = asm_i + 1
                /\ UNCHANGED <<asm_status, error>>
           ELSE /\ asm_status' = "raised"
                /\ error' = enc.error
                /\ UNCHANGED <<binary, asm_i>>
    /\ UNCHANGED <<code_bytes, regs_count, data_mem_size, state, pc, cmd_int,
                   status, executed, ir_list>>
    /\ UNCHANGED <<to_ir_vars, pipe_vars, dump_vars, pair_vars, gui_vars>>

\* assemble: one pass of "for instr in ir_list: binary.extend(encode_instr(instr))"
AsmStep ==
    /\ asm_status = "running"
    /\ asm_i <= Len(ir_list)
    /\ LET enc == encode_instr(ir_list[asm_i])
       IN  IF enc.ok
           THEN /\ binary' = binary \o enc.bytes
                /\ asm_i' = asm_i + 1
                /\ UNCHANGED <<asm_status, error>>
           ELSE /\ asm_status' = "raised"
                /\ error' = enc.error
                /\ UNCHANGED <<binary, asm_i>>
    /\ UNCHANGED <<code_bytes, regs_count, data_mem_size, state, pc, cmd_int,
                   status, executed, ir_list>>
    /\ UNCHANGED <<to_ir_vars, pipe_vars, dump_vars, pair_vars, gui_vars>>

\* assemble: the loop is over, "return binary"
AsmReturn ==
    /\ asm_status = "running"
    /\ asm_i > Len(ir_list)
    /\ asm_status' = "returned"
    /\ UNCHANGED <<run_vars, ir_list, asm_i, binary>>
    /\ UNCHANGED <<to_ir_vars, pipe_vars, dump_vars, pair_vars, gui_vars>>

----------------------------------------------------------------------------
(* assembler.py: to_ir and main *)

\* A YAML entry is a mapping from keys to scalars; a scalar is [int |-> n]
\* or [str |-> s], the value of "cmd" a plain string.

\* the decimal strings int() accepts, among those the entries use
DecimalStrings == ("7" :> 7) @@ ("200" :> 200)

\* int(x): an int is itself, a decimal string its number, any other
\* string raises ValueError
py_int(x) ==
    IF "int" \in DOMAIN x THEN [ok |-> TRUE, val |-> x.int]
    ELSE IF x.str \in DOMAIN DecimalStrings
    THEN [ok |-> TRUE, val |-> DecimalStrings[x.str]]
    ELSE [ok |-> FALSE, val |-> 0]

\* instr.get("cmd")
get_cmd(instr) == IF "cmd" \in DOMAIN instr THEN instr.cmd ELSE "None"

\* "addr" looked up first, "offset" the fallback
write_mem_addr_addr_first(instr) ==
    IF "addr" \in DOMAIN instr THEN instr.addr ELSE instr.offset

\* addr = instr.get("offset", instr.get("addr"))
write_mem_addr(instr) ==
    IF "offset" \in DOMAIN instr THEN instr.offset ELSE instr.addr

IrOk(rec) == [ok |-> TRUE, kind |-> "none", rec |-> rec]

IrFail(kind) == [ok |-> FALSE, kind |-> kind, rec |-> [cmd |-> "none"]]

\* the body of the for loop of to_ir for one entry: the record appended,
\* or the exception raised ("IntError" is the one int() raises)
to_ir_entry(instr) ==
    LET cmd == get_cmd(instr)
        has(k) == k \in DOMAIN instr
    IN  IF cmd = "LOAD_CONST"
        THEN IF ~has("reg") \/ ~has("value") THEN IrFail("MissingFields")
             ELSE IF ~py_int(instr.reg).ok \/ ~py_int(instr.value).ok
             THEN IrFail("IntError")
             ELSE IrOk([cmd |-> "LOAD_CONST", reg |-> py_int(instr.reg).val,
                        value |-> py_int(instr.value).val])
        ELSE IF cmd = "READ_MEM"
        THEN IF ~has("reg") \/ ~has("addr") THEN IrFail("MissingFields")
             ELSE IF ~py_int(instr.reg).ok \/ ~py_int(instr.addr).ok
             THEN IrFail("IntError")
             ELSE IrOk([cmd |-> "READ_MEM", reg |-> py_int(instr.reg).val,
                        addr |-> py_int(instr.addr).val])
        ELSE IF cmd = "WRITE_MEM"
        THEN IF ~has("src_reg") \/ (~has("offset") /\ ~has("addr"))
             THEN IrFail("MissingFields")
             ELSE IF \/ ~py_int(write_mem_addr(instr)).ok
                     \/ ~py_int(instr.src_reg).ok
             THEN IrFail("IntError")
             ELSE IrOk([cmd |-> "WRITE_MEM",
                        addr |-> py_int(write_mem_addr(instr)).val,
                        src_reg |-> py_int(instr.src_reg).val])
        ELSE IF cmd = "SQRT"
        THEN IF ~has("reg") \/ ~has("addr") THEN IrFail("MissingFields")
             ELSE IF ~py_int(instr.reg).ok \/ ~py_int(instr.addr).ok
             THEN IrFail("IntError")
             ELSE IrOk([cmd |-> "SQRT", reg |-> py_int(instr.reg).val,
                        addr |-> py_int(instr.addr).val])
        ELSE IrFail("UnknownCommand")

\* positions counted from 1
entry_index_from_one(i) == i

\* enumerate(yaml_program): idx of the i-th entry
entry_index(i) == i - 1

\* the exception of to_ir: its two own messages name idx, int()'s does
\* not (idx -1)
to_ir_exception(kind, i) ==
    [kind |-> kind,
     idx |-> IF kind = "IntError" THEN -1 ELSE entry_index(i)]

\* to_ir: one pass of "for idx, instr in enumerate(yaml_program)"
ToIrStep ==
    /\ ir_status = "running"
    /\ ir_idx <= Len(yaml_program)
    /\ LET r == to_ir_entry(yaml_program[ir_idx])
       IN  IF r.ok
           THEN /\ ir_built' = Append(ir_built, r.rec)
                /\ ir_idx' = ir_idx + 1
                /\ UNCHANGED <<ir_status, ir_error>>
           ELSE /\ ir_status' = "raised"
                /\ ir_error' = to_ir_exception(r.kind, ir_idx)
                /\ UNCHANGED <<ir_built, ir_idx>>
    /\ UNCHANGED <<run_vars, asm_vars, yaml_program, pipe_vars, dump_vars,
                   pair_vars, gui_vars>>

\* to_ir: the loop is over, "return ir"
ToIrReturn ==
    /\ ir_status = "running"
    /\ ir_idx > Len(yaml_program)
    /\ ir_status' = "returned"
    /\ UNCHANGED <<run_vars, asm_vars, yaml_program, ir_built, ir_idx,
                   ir_error, pipe_vars, dump_vars, pair_vars, gui_vars>>

\* main / AssembleRunWorker.run: "binary = assemble(ir)" is entered with
\* what to_ir returned
CallAssemble ==
    /\ ir_status = "returned"
    /\ asm_status = "idle"
    /\ ir_list' = ir_built
    /\ asm_i' = 1
    /\ binary' = <<>>
    /\ asm_status' = "running"
    /\ UNCHANGED <<run_vars, to_ir_vars, pipe_vars, dump_vars, pair_vars, gui_vars>>

\* the file is written with whatever assemble had built when it ended
MainWrite_streamed ==
    /\ asm_status \in {"returned", "raised"}
    /\ ~out_file.exists
    /\ ~run_arg.passed
    /\ out_file' = [exists |-> TRUE, bytes |-> binary]
    /\ UNCHANGED <<run_vars, asm_vars, to_ir_vars, run_arg, dump_vars,
                   pair_vars, gui_vars>>

\* main: with open(args.output, "wb") as f: f.write(binary)
MainWrite ==
    /\ asm_status = "returned"
    /\ ~out_file.exists
    /\ ~run_arg.passed
    /\ out_file' = [exists |-> TRUE, bytes |-> binary]
    /\ UNCHANGED <<run_vars, asm_vars, to_ir_vars, run_arg, dump_vars,
                   pair_vars, gui_vars>>

\* AssembleRunWorker.run: run_binary_bytes(bytes(binary), ...) is called
WorkerRun ==
    /\ asm_status = "returned"
    /\ ~out_file.exists
    /\ ~run_arg.passed
    /\ run_arg' = [passed |-> TRUE, bytes |-> binary]
    /\ UNCHANGED <<run_vars, asm_vars, to_ir_vars, out_file, dump_vars,
                   pair_vars, gui_vars>>

----------------------------------------------------------------------------
(* interpreter.py *)

\* (cmd_int >> shift) & mask(width)
Field(w, shift, width) == BitsToNat(BitAnd(Shr(w, shift), mask(width)))

\* only five bits of the opcode are looked at
Opcode_5bit(w) == BitsToNat(BitAnd(w, mask(5)))

\* A = cmd_int & mask(6)
Opcode(w) == BitsToNat(BitAnd(w, mask(6)))

\* math.isqrt: Newton iteration from a power of two above the root
RECURSIVE isqrt_iter(_, _)
isqrt_iter(n, x) ==
    LET y == (x + n \div x) \div 2
    IN  IF y >= x THEN x ELSE isqrt_iter(n, y)

\* the root rounded to the nearest integer instead of down
isqrt_round(n) ==
    IF n = 0 THEN 0
    ELSE LET r == isqrt_iter(n, 2 ^ ((Len(NatToBits(n)) + 1) \div 2))
         IN  IF n - r * r > r THEN r + 1 ELSE r

isqrt(n) ==
    IF n = 0 THEN 0
    ELSE isqrt_iter(n, 2 ^ ((Len(NatToBits(n)) + 1) \div 2))

\* an index a Python list accepts (decoded indices are never negative)
InList(list, i) == i \in DOMAIN list

Raise(kind, st) == [error |-> kind, state |-> st]

Done(st) == [error |-> "none", state |-> st]

\* the register of READ_MEM and SQRT masked with mask(6): it takes the
\* lowest bit of the address with it
decode_fields_reg6(w) ==
    LET A == Opcode(w)
    IN  IF A = LOAD_CONST
        THEN [A |-> A, B |-> Field(w, 6, 20), C |-> Field(w, 26, 5)]
        ELSE IF A = READ_MEM
        THEN [A |-> A, B |-> Field(w, 6, 6), C |-> Field(w, 11, 19)]
        ELSE IF A = WRITE_MEM
        THEN [A |-> A, B |-> Field(w, 6, 19), C |-> Field(w, 25, 5)]
        ELSE IF A = SQRT
        THEN [A |-> A, B |-> Field(w, 6, 6), C |-> Field(w, 11, 19)]
        ELSE [A |-> A, B |-> 0, C |-> 0]

\* the operand fields B and C as each branch of decode_and_execute_one
\* extracts them
decode_fields(w) ==
    LET A == Opcode(w)
    IN  IF A = LOAD_CONST
        THEN [A |-> A, B |-> Field(w, 6, 20), C |-> Field(w, 26, 5)]
        ELSE IF A = READ_MEM
        THEN [A |-> A, B |-> Field(w, 6, 5), C |-> Field(w, 11, 19)]
        ELSE IF A = WRITE_MEM
        THEN [A |-> A, B |-> Field(w, 6, 19), C |-> Field(w, 25, 5)]
        ELSE IF A = SQRT
        THEN [A |-> A, B |-> Field(w, 6, 5), C |-> Field(w, 11, 19)]
        ELSE [A |-> A, B |-> 0, C |-> 0]

\* the value read with one bit more than its field has
exec_LOAD_CONST_wide(w, st) ==
    LET B == Field(w, 6, 21)
        C == Field(w, 26, 5)
    IN  IF ~InList(st.regs, C) THEN Raise("IndexError", st)
        ELSE Done([st EXCEPT !.regs[C] = B])

\* A == 29: state["regs"][C] = B
exec_LOAD_CONST(w, st) ==
    LET B == decode_fields(w).B
        C == decode_fields(w).C
    IN  IF ~InList(st.regs, C) THEN Raise("IndexError", st)
        ELSE Done([st EXCEPT !.regs[C] = B])

\* the destination register is cleared before memory is read
exec_READ_MEM_clear(w, st) ==
    LET B == Field(w, 6, 5)
        C == Field(w, 11, 19)
        cleared == IF InList(st.regs, B) THEN [st EXCEPT !.regs[B] = 0] ELSE st
    IN  IF ~InList(st.data_mem, C) THEN Raise("IndexError", cleared)
        ELSE IF ~InList(st.regs, B) THEN Raise("IndexError", cleared)
        ELSE Done([st EXCEPT !.regs[B] = st.data_mem[C]])

\* A == 4: state["regs"][B] = state["data_mem"][C]
exec_READ_MEM(w, st) ==
    LET B == decode_fields(w).B
        C == decode_fields(w).C
    IN  IF ~InList(st.data_mem, C) THEN Raise("IndexError", st)
        ELSE IF ~InList(st.regs, B) THEN Raise("IndexError", st)
        ELSE Done([st EXCEPT !.regs[B] = st.data_mem[C]])

\* the operand fields read at READ_MEM's positions
exec_WRITE_MEM_swapped(w, st) ==
    LET B == Field(w, 11, 19)
        C == Field(w, 6, 5)
    IN  IF ~InList(st.regs, C) THEN Raise("IndexError", st)
        ELSE IF ~InList(st.data_mem, B) THEN Raise("IndexError", st)
        ELSE Done([st EXCEPT !.data_mem[B] = st.regs[C]])

\* the address taken modulo the memory size
exec_WRITE_MEM_wrap(w, st) ==
    LET B == Field(w, 6, 19) % Cardinality(DOMAIN st.data_mem)
        C == Field(w, 25, 5)
    IN  IF ~InList(st.regs, C) THEN Raise("IndexError", st)
        ELSE Done([st EXCEPT !.data_mem[B] = st.regs[C]])

\* A == 43: state["data_mem"][B] = state["regs"][C]
exec_WRITE_MEM(w, st) ==
    LET B == decode_fields(w).B
        C == decode_fields(w).C
    IN  IF ~InList(st.regs, C) THEN Raise("IndexError", st)
        ELSE IF ~InList(st.data_mem, B) THEN Raise("IndexError", st)
        ELSE Done([st EXCEPT !.data_mem[B] = st.regs[C]])

\* the destination register is zeroed before the sign of val is tested
exec_SQRT_store_first(w, st) ==
    LET B == Field(w, 6, 5)
        C == Field(w, 11, 19)
    IN  IF ~InList(st.data_mem, C) THEN Raise("IndexError", st)
        ELSE IF ~InList(st.regs, B) THEN Raise("IndexError", st)
        ELSE IF st.data_mem[C] < 0
        THEN Raise("SqrtNegative", [st EXCEPT !.regs[B] = 0])
        ELSE Done([st EXCEPT !.regs[B] = isqrt(st.data_mem[C])])

\* the root is also stored back to the cell it was taken from
exec_SQRT_in_place(w, st) ==
    LET B == Field(w, 6, 5)
        C == Field(w, 11, 19)
    IN  IF ~InList(st.data_mem, C) THEN Raise("IndexError", st)
        ELSE IF st.data_mem[C] < 0 THEN Raise("SqrtNegative", st)
        ELSE IF ~InList(st.regs, B) THEN Raise("IndexError", st)
        ELSE Done([st EXCEPT !.regs[B] = isqrt(st.data_mem[C]),
                             !.data_mem[C] = isqrt(st.data_mem[C])])

\* A == 2: val = state["data_mem"][C]; negative val raises; else
\* state["regs"][B] = math.isqrt(int(val))
exec_SQRT(w, st) ==
    LET B == decode_fields(w).B
        C == decode_fields(w).C
    IN  IF ~InList(st.data_mem, C) THEN Raise("IndexError", st)
        ELSE IF st.data_mem[C] < 0 THEN Raise("SqrtNegative", st)
        ELSE IF ~InList(st.regs, B) THEN Raise("IndexError", st)
        ELSE Done([st EXCEPT !.regs[B] = isqrt(st.data_mem[C])])

decode_and_execute_one(w, st) ==
    LET A == Opcode(w)
    IN  IF A = LOAD_CONST THEN exec_LOAD_CONST(w, st)
        ELSE IF A = READ_MEM THEN exec_READ_MEM(w, st)
        ELSE IF A = WRITE_MEM THEN exec_WRITE_MEM(w, st)
        ELSE IF A = SQRT THEN exec_SQRT(w, st)
        ELSE Raise("UnknownOpcode", st)

\* state = {"regs": [0]*regs_count, "data_mem": [0]*data_mem_size}
InitState(nregs, nmem) ==
    [regs |-> [i \in 0..(nregs - 1) |-> 0],
     data_mem |-> [i \in 0..(nmem - 1) |-> 0]]

\* code_bytes[pc:pc+INSTR_SIZE]: a slice stops at the end of the buffer
instr_bytes(code, at) ==
    SubSeq(code, at + 1, Min2(at + INSTR_SIZE, Len(code)))

\* the program counter advanced twice
NextPc_skip(at) == at + INSTR_SIZE + INSTR_SIZE

\* pc += INSTR_SIZE
NextPc(at) == at + INSTR_SIZE

\* the loop goes on while any byte is left
LoopCond_any(at, code_len) == at < code_len

\* while pc + INSTR_SIZE <= code_len
LoopCond(at, code_len) == at + INSTR_SIZE <= code_len

\* run_binary_bytes / run_program: one pass of the while loop
Step ==
    /\ status = "running"
    /\ LoopCond(pc, Len(code_bytes))
    /\ LET w == from_bytes(instr_bytes(code_bytes, pc))
           r == decode_and_execute_one(w, state)
       IN  /\ cmd_int' = w
           /\ state' = r.state
           /\ IF r.error = "none"
              THEN /\ pc' = NextPc(pc)
                   /\ executed' = Append(executed, pc)
                   /\ UNCHANGED <<status, error>>
              ELSE /\ status' = "fault"
                   /\ error' = r.error
                   /\ UNCHANGED <<pc, executed>>
    /\ UNCHANGED <<code_bytes, regs_count, data_mem_size, asm_vars>>
    /\ UNCHANGED <<to_ir_vars, pipe_vars, dump_vars, pair_vars, gui_vars>>

\* run_binary_bytes / run_program: the loop is over; run_binary_bytes
\* returns the state, run_program goes on to the dump
Halt ==
    /\ status = "running"
    /\ ~LoopCond(pc, Len(code_bytes))
    /\ status' = "halted"
    /\ UNCHANGED <<code_bytes, regs_count, data_mem_size, state, pc, cmd_int,
                   error, executed, asm_vars>>
    /\ UNCHANGED <<to_ir_vars, pipe_vars, dump_vars, pair_vars, gui_vars>>

\* a caller applies decode_and_execute_one to a state of its own
DirectCall ==
    /\ status = "direct"
    /\ Len(executed) < MaxCalls
    /\ LET r == decode_and_execute_one(cmd_int, state)
       IN  /\ state' = r.state
           /\ error' = r.error
           /\ executed' = Append(executed, 0)
    /\ UNCHANGED <<code_bytes, regs_count, data_mem_size, pc, cmd_int, status,
                   asm_vars>>
    /\ UNCHANGED <<to_ir_vars, pipe_vars, dump_vars, pair_vars, gui_vars>>

----------------------------------------------------------------------------
(* interpreter.py: the dump of run_program; main_gui.py: the memory table *)

\* the dump is taken when the loop has ended in any way, a fault included
LoopExited_or_fault == status \in {"halted", "fault"}

\* the while loop of run_program has ended without an exception
LoopExited == status = "halted"

\* the last address is left out
dump_rows_exclusive(st, start, end) ==
    [i \in 1..(end - start) |-> <<start + i - 1, st.data_mem[start + i - 1]>>]

\* for addr in range(start, end+1): writer.writerow([addr, data_mem[addr]])
dump_rows(st, start, end) ==
    [i \in 1..(end - start + 1) |->
        <<start + i - 1, st.data_mem[start + i - 1]>>]

\* run_program: "if dump_csv is not None and dump_range is not None": the
\* file is opened, the header row written, the bounds tested, the rows
\* written
DumpCsv ==
    /\ caller = "run_program"
    /\ LoopExited
    /\ dump_range # <<>>
    /\ dump.status = "none"
    /\ LET start == dump_range[1]
           end == dump_range[2]
       IN  IF start < 0 \/ end >= data_mem_size
           THEN dump' = [status |-> "raised", error |-> "IndexError",
                         header |-> TRUE, rows |-> <<>>]
           ELSE dump' = [status |-> "written", error |-> "none",
                         header |-> TRUE,
                         rows |-> dump_rows(state, start, end)]
    /\ UNCHANGED <<run_vars, asm_vars, to_ir_vars, pipe_vars, caller,
                   dump_range, pair_vars, gui_vars>>

\* AssembleRunWorker.run: the range is tested once run_binary_bytes has
\* returned; ValueError goes to the error signal, else finished is emitted
WorkerValidate ==
    /\ caller = "worker"
    /\ LoopExited
    /\ dump.status = "none"
    /\ LET start == dump_range[1]
           end == dump_range[2]
       IN  IF start < 0 \/ end >= data_mem_size \/ start > end
           THEN dump' = [status |-> "raised", error |-> "ValueError",
                         header |-> FALSE, rows |-> <<>>]
           ELSE dump' = [status |-> "validated", error |-> "none",
                         header |-> FALSE, rows |-> <<>>]
    /\ UNCHANGED <<run_vars, asm_vars, to_ir_vars, pipe_vars, caller,
                   dump_range, pair_vars, gui_vars>>

\* UVMGUI._on_worker_finished: one table row per address of the range
TableFill ==
    /\ caller = "worker"
    /\ dump.status = "validated"
    /\ dump' = [dump EXCEPT
                  !.status = "written",
                  !.rows = dump_rows(state, dump_range[1], dump_range[2])]
    /\ UNCHANGED <<run_vars, asm_vars, to_ir_vars, pipe_vars, caller,
                   dump_range, pair_vars, gui_vars>>

----------------------------------------------------------------------------
(* interpreter.py: invocations running at the same time.  Python lists are *)
(* objects reached through references: heap holds the lists, an invocation *)
(* holds the indices in heap of its two lists.                             *)

\* the state is built once and every later invocation gets the same lists
fresh_state_cached(h, nregs, nmem) ==
    IF h # <<>> THEN [heap |-> h, regs |-> 1, data_mem |-> 2]
    ELSE [heap |-> << [i \in 0..(nregs - 1) |-> 0],
                      [i \in 0..(nmem - 1) |-> 0] >>,
          regs |-> 1, data_mem |-> 2]

\* state = {"regs": [0]*regs_count, "data_mem": [0]*data_mem_size}: two
\* new lists
fresh_state(h, nregs, nmem) ==
    [heap |-> h \o << [i \in 0..(nregs - 1) |-> 0],
                      [i \in 0..(nmem - 1) |-> 0] >>,
     regs |-> Len(h) + 1,
     data_mem |-> Len(h) + 2]

\* the dict state of invocation r, its lists looked up
state_of(h, run) == [regs |-> h[run.regs], data_mem |-> h[run.data_mem]]

\* invocation r initialises its state and sets pc = 0
PairEnter(r) ==
    /\ runs[r].status = "called"
    /\ LET f == fresh_state(heap, runs[r].regs_count, runs[r].data_mem_size)
       IN  /\ heap' = f.heap
           /\ runs' = [runs EXCEPT ![r].status = "running",
                                   ![r].regs = f.regs,
                                   ![r].data_mem = f.data_mem]
    /\ UNCHANGED <<run_vars, asm_vars, to_ir_vars, pipe_vars, dump_vars,
                   gui_vars>>

\* invocation r: one pass of the while loop
PairStep(r) ==
    /\ runs[r].status = "running"
    /\ LoopCond(runs[r].pc, Len(runs[r].code))
    /\ LET w == from_bytes(instr_bytes(runs[r].code, runs[r].pc))
           res == decode_and_execute_one(w, state_of(heap, runs[r]))
       IN  /\ heap' = [heap EXCEPT ![runs[r].regs] = res.state.regs,
                                   ![runs[r].data_mem] = res.state.data_mem]
           /\ IF res.error = "none"
              THEN runs' = [runs EXCEPT ![r].pc = NextPc(runs[r].pc)]
              ELSE runs' = [runs EXCEPT ![r].status = "fault",
                                        ![r].error = res.error]
    /\ UNCHANGED <<run_vars, asm_vars, to_ir_vars, pipe_vars, dump_vars,
                   gui_vars>>

\* invocation r: the loop is over, "return state"
PairHalt(r) ==
    /\ runs[r].status = "running"
    /\ ~LoopCond(runs[r].pc, Len(runs[r].code))
    /\ runs' = [runs EXCEPT ![r].status = "halted"]
    /\ UNCHANGED <<run_vars, asm_vars, to_ir_vars, pipe_vars, dump_vars, heap,
                   gui_vars>>

----------------------------------------------------------------------------
(* gui/main_gui.py: the button, the worker thread and the two slots.  A    *)
(* worker is a record: its arguments, how far its thread has come          *)
(* ("started", "emitted", "returned") and the signals it has emitted.      *)

\* to_ir(yaml_program) from entry i on: the records in order, or the
\* exception of the first entry that fails
RECURSIVE to_ir_from(_, _)
to_ir_from(prog, i) ==
    IF i > Len(prog)
    THEN [ok |-> TRUE, ir |-> <<>>, error |-> "none"]
    ELSE LET r == to_ir_entry(prog[i])
         IN  IF ~r.ok
             THEN [ok |-> FALSE, ir |-> <<>>,
                   error |-> to_ir_exception(r.kind, i).kind]
             ELSE LET rest == to_ir_from(prog, i + 1)
                  IN  IF rest.ok
                      THEN [rest EXCEPT !.ir = <<r.rec>> \o rest.ir]
                      ELSE rest

to_ir(prog) == to_ir_from(prog, 1)

\* assemble(ir_list): the words in order, or the exception of encode_instr
RECURSIVE assemble(_)
assemble(irs) ==
    IF irs = <<>> THEN [ok |-> TRUE, bytes |-> <<>>, error |-> "none"]
    ELSE LET enc == encode_instr(irs[1])
         IN  IF ~enc.ok
             THEN [ok |-> FALSE, bytes |-> <<>>, error |-> enc.error]
             ELSE LET rest == assemble(Tail(irs))
                  IN  IF rest.ok
                      THEN [rest EXCEPT !.bytes = enc.bytes \o rest.bytes]
                      ELSE rest

\* the while loop of run_binary_bytes from offset at
RECURSIVE run_loop(_, _, _)
run_loop(code, at, st) ==
    IF ~LoopCond(at, Len(code)) THEN Done(st)
    ELSE LET r == decode_and_execute_one(from_bytes(instr_bytes(code, at)),
                                         st)
         IN  IF r.error # "none" THEN r
             ELSE run_loop(code, NextPc(at), r.state)

\* gui_backend.run_binary_bytes(binary_bytes, data_mem_size, regs_count):
\* the bytes go through a temporary file to run_program, asked for no
\* dump; the state it returns, or the exception that leaves it
run_binary_bytes(code, nmem, nregs) ==
    run_loop(code, 0, InitState(nregs, nmem))

\* the range texts that have a "-" and two integers around it
RangeTexts ==
    ("0-3" :> <<0, 3>>) @@ ("1-2" :> <<1, 2>>) @@ ("2-1" :> <<2, 1>>)
      @@ ("1-4" :> <<1, 4>>)

\* AssembleRunWorker.parse_range: no "-" raises, and so does int() on
\* what is not a number
parse_range(s) ==
    IF s \in DOMAIN RangeTexts
    THEN [ok |-> TRUE, range |-> RangeTexts[s]]
    ELSE [ok |-> FALSE, range |-> <<>>]

WorkerError(kind) == [signal |-> "error", tb |-> kind]

\* the body of the try of AssembleRunWorker.run: the payload it reaches,
\* or the exception that takes it to the except clause
run_try(w) ==
    IF w.data.kind = "invalid" THEN WorkerError("YAMLError")
    ELSE IF w.data.kind # "mapping" \/ "program" \notin DOMAIN w.data
    THEN WorkerError("ValueError")
    ELSE LET ir == to_ir(w.data.program)
         IN  IF ~ir.ok THEN WorkerError(ir.error)
             ELSE LET bin == assemble(ir.ir)
                  IN  IF ~bin.ok THEN WorkerError(bin.error)
                      ELSE LET run == run_binary_bytes(bin.bytes, w.mem_size,
                                                      w.regs_count)
                               rng == parse_range(w.dump_range_text)
                           IN  IF run.error # "none"
                               THEN WorkerError(run.error)
                               ELSE IF ~rng.ok THEN WorkerError("ValueError")
                               ELSE IF \/ rng.range[1] < 0
                                       \/ rng.range[2] >= w.mem_size
                                       \/ rng.range[1] > rng.range[2]
                               THEN WorkerError("ValueError")
                               ELSE [signal |-> "finished",
                                     state |-> run.state,
                                     binary_len |-> Len(bin.bytes),
                                     dump_range |-> rng.range]

\* AssembleRunWorker.run: the signals one run emits, in order: finished
\* as the last statement of the try, error from the except clause
run_emits(w) == <<run_try(w)>>

\* the rows _on_worker_finished puts in the table: str(addr) and str(val),
\* "<out of range>" for an address outside the memory
table_rows(st, start, end) ==
    [i \in 1..(IF end >= start THEN end - start + 1 ELSE 0) |->
        LET addr == start + i - 1
        IN  [addr |-> addr,
             val |-> IF addr \in DOMAIN st.data_mem
                     THEN [int |-> st.data_mem[addr]]
                     ELSE [str |-> "<out of range>"]]]

\* UVMGUI.on_assemble_run, the slot of the button's clicked signal (a
\* disabled button emits none): the button is disabled, a worker is made
\* from the widgets' contents, kept in _current_worker and started
on_assemble_run(inp) ==
    /\ assemble_run_btn
    /\ assemble_run_btn' = FALSE
    /\ gui_log' = Append(gui_log, "Starting assemble & run...")
    /\ workers' = Append(workers,
                         [input |-> inp, pos |-> "started", emitted |-> <<>>])
    /\ current_worker' = Len(workers) + 1
    /\ UNCHANGED <<events, mem_table>>
    /\ UNCHANGED <<run_vars, asm_vars, to_ir_vars, pipe_vars, dump_vars,
                   pair_vars>>

\* AssembleRunWorker.run in the thread of worker n: the pipeline, then the
\* signal; the receiver lives in the main thread, so the signal is queued
worker_run(n) ==
    /\ workers[n].pos = "started"
    /\ LET sigs == run_emits(workers[n].input)
       IN  /\ workers' = [workers EXCEPT ![n].pos = "emitted",
                                         ![n].emitted = sigs]
           /\ events' = events \o [i \in 1..Len(sigs) |->
                                     [worker |-> n, signal |-> sigs[i]]]
    /\ UNCHANGED <<assemble_run_btn, current_worker, mem_table, gui_log>>
    /\ UNCHANGED <<run_vars, asm_vars, to_ir_vars, pipe_vars, dump_vars,
                   pair_vars>>

\* run() returns and the thread of worker n ends
worker_return(n) ==
    /\ workers[n].pos = "emitted"
    /\ workers' = [workers EXCEPT ![n].pos = "returned"]
    /\ UNCHANGED <<assemble_run_btn, current_worker, events, mem_table,
                   gui_log>>
    /\ UNCHANGED <<run_vars, asm_vars, to_ir_vars, pipe_vars, dump_vars,
                   pair_vars>>

\* UVMGUI._on_worker_finished, run by the main thread for the oldest
\* queued signal
on_worker_finished ==
    /\ events # <<>>
    /\ Head(events).signal.signal = "finished"
    /\ LET payload == Head(events).signal
       IN  /\ mem_table' = table_rows(payload.state, payload.dump_range[1],
                                      payload.dump_range[2])
           /\ gui_log' = Append(gui_log, "Memory dump updated")
    /\ assemble_run_btn' = TRUE
    /\ current_worker' = 0
    /\ events' = Tail(events)
    /\ UNCHANGED workers
    /\ UNCHANGED <<run_vars, asm_vars, to_ir_vars, pipe_vars, dump_vars,
                   pair_vars>>

\* UVMGUI._on_worker_error
on_worker_error ==
    /\ events # <<>>
    /\ Head(events).signal.signal = "error"
    /\ gui_log' = Append(gui_log, "Error during assemble/run")
    /\ assemble_run_btn' = TRUE
    /\ current_worker' = 0
    /\ events' = Tail(events)
    /\ UNCHANGED <<workers, mem_table>>
    /\ UNCHANGED <<run_vars, asm_vars, to_ir_vars, pipe_vars, dump_vars,
                   pair_vars>>

----------------------------------------------------------------------------
(* Inputs *)

\* n as exactly w bits, least significant first
FixedBits(n, w) == [j \in 1..w |-> (n \div (2 ^ (j - 1))) % 2]

\* 32 bits as the 4 bytes of a buffer, least significant byte first
WordBytes(bits) ==
    [k \in 1..4 |-> BitsToNat(SubSeq(bits, 8 * k - 7, 8 * k))]

\* a buffer word laid out bit by bit: opcode in bits 0-5, then the two
\* operand fields, then the bits no field covers
RawWord(op, fb, wb, fc, wc, high) ==
    WordBytes(FixedBits(op, 6) \o FixedBits(fb, wb) \o FixedBits(fc, wc)
              \o high)

W_LoadConst(value, reg, high) == RawWord(29, value, 20, reg, 5, high)

W_ReadMem(reg, addr, high) == RawWord(4, reg, 5, addr, 19, high)

W_WriteMem(addr, src_reg, high) == RawWord(43, addr, 19, src_reg, 5, high)

W_Sqrt(reg, addr, high) == RawWord(2, reg, 5, addr, 19, high)

\* the words a buffer is made of: the four instructions with indices
\* inside and outside the small configurations, bits set above the fields,
\* and an opcode outside the instruction set (29 with bit 5 set)
WordMenu ==
    { W_LoadConst(625, 0, <<0>>),
      W_LoadConst(1048575, 1, <<0>>),
      W_LoadConst(24, 2, <<1>>),
      W_WriteMem(1, 0, <<0, 0>>),
      W_WriteMem(2, 1, <<0, 0>>),
      W_WriteMem(0, 31, <<1, 1>>),
      W_ReadMem(1, 1, <<0, 0>>),
      W_ReadMem(0, 524287, <<0, 1>>),
      W_Sqrt(1, 1, <<0, 0>>),
      W_Sqrt(2, 2, <<1, 0>>),
      RawWord(61, 7, 20, 0, 5, <<0>>) }

\* the 0 to 3 bytes after the last whole word
Trailing == { <<>>, <<29>>, <<93, 156>>, <<93, 156, 0>> }

\* (regs_count, data_mem_size)
Configs == { <<2, 2>>, <<DEFAULT_REGS, 3>> }

RECURSIVE Flatten(_)
Flatten(ws) == IF ws = <<>> THEN <<>> ELSE ws[1] \o Flatten(Tail(ws))

Buffers ==
    { Flatten(ws) \o t :
        ws \in UNION { [1..n -> WordMenu] : n \in 0..MaxWords },
        t \in Trailing }

\* the programs of section 8 of the specification, run with the defaults
ExampleBuffers ==
    { W_LoadConst(123, 0, <<0>>),
      W_LoadConst(625, 0, <<0>>) \o W_WriteMem(200, 0, <<0, 0>>)
          \o W_Sqrt(1, 200, <<0, 0>>),
      W_Sqrt(0, 0, <<0, 0>>) }

AsmIdle ==
    /\ ir_list = <<>>
    /\ asm_i = 1
    /\ binary = <<>>
    /\ asm_status = "idle"

\* to_ir not called
ToIrIdle ==
    /\ yaml_program = <<>>
    /\ ir_built = <<>>
    /\ ir_idx = 1
    /\ ir_status = "idle"
    /\ ir_error = [kind |-> "none", idx |-> -1]

\* nothing written to the output file, nothing given to the interpreter
PipeIdle ==
    /\ out_file = [exists |-> FALSE, bytes |-> <<>>]
    /\ run_arg = [passed |-> FALSE, bytes |-> <<>>]

\* no dump asked for, nothing opened
NoDump == [status |-> "none", error |-> "none", header |-> FALSE, rows |-> <<>>]

DumpIdle ==
    /\ caller = "run_binary_bytes"
    /\ dump_range = <<>>
    /\ dump = NoDump

\* no concurrent invocation
PairIdle ==
    /\ heap = <<>>
    /\ runs = <<>>

\* UVMGUI.__init__: the button enabled, no worker, the table and the log
\* empty
GuiIdle ==
    /\ assemble_run_btn = TRUE
    /\ current_worker = 0
    /\ workers = <<>>
    /\ events = <<>>
    /\ mem_table = <<>>
    /\ gui_log = <<>>

\* run_binary_bytes(code_bytes, data_mem_size, regs_count) is entered
Init ==
    /\ \/ /\ code_bytes \in Buffers
          /\ \E cfg \in Configs : regs_count = cfg[1] /\ data_mem_size = cfg[2]
       \/ /\ code_bytes \in ExampleBuffers
          /\ regs_count = DEFAULT_REGS
          /\ data_mem_size = DEFAULT_MEM
    /\ state = InitState(regs_count, data_mem_size)
    /\ pc = 0
    /\ cmd_int = <<>>
    /\ status = "running"
    /\ error = "none"
    /\ executed = <<>>
    /\ AsmIdle
    /\ ToIrIdle
    /\ PipeIdle
    /\ DumpIdle
    /\ PairIdle
    /\ GuiIdle

Next == Step \/ Halt

Spec == Init /\ [][Next]_vars

\* Step can be taken exactly when its guard holds: whatever the word, it
\* changes pc or status
StepEnabled == status = "running" /\ LoopCond(pc, Len(code_bytes))

\* the call is synchronous and single-threaded: the loop is not abandoned
\* half way.  Weak fairness of Halt and of Step, the latter written out as
\* []<>~ENABLED <<Step>>_vars \/ []<><<Step>>_vars with StepEnabled for the
\* ENABLED
FairSpec ==
    /\ Spec
    /\ WF_vars(Halt)
    /\ ([]<>~StepEnabled \/ []<><<Step>>_vars)

----------------------------------------------------------------------------
(* decode_and_execute_one called on a state the caller built *)

CellValues == { -4, -1, 0, 3, 24, 25, 1048575 }

DirectStates ==
    { [regs |-> r, data_mem |-> m] :
        r \in [0..1 -> {0, 7}], m \in [0..1 -> CellValues] }

\* the menu, SQRT to a register that does not exist, and the zero word
DirectWords == WordMenu \cup { W_Sqrt(2, 0, <<0, 0>>), <<0, 0, 0, 0>> }

InitDirect ==
    /\ state \in DirectStates
    /\ cmd_int \in { from_bytes(b) : b \in DirectWords }
    /\ code_bytes = <<>>
    /\ regs_count = 2
    /\ data_mem_size = 2
    /\ pc = 0
    /\ status = "direct"
    /\ error = "none"
    /\ executed = <<>>
    /\ AsmIdle
    /\ ToIrIdle
    /\ PipeIdle
    /\ DumpIdle
    /\ PairIdle
    /\ GuiIdle

NextDirect == DirectCall

SpecDirect == InitDirect /\ [][NextDirect]_vars

----------------------------------------------------------------------------
(* assemble(ir_list) *)

\* operands at and around the width of their field
ValueSamples == { 123, 1048575, 1048576 }

RegSamples == { 0, 31, 32, 64 }

AddrSamples == { 200, 524287, 524288 }

IRMenu ==
    { [cmd |-> "LOAD_CONST", value |-> v, reg |-> r] :
        v \in ValueSamples, r \in RegSamples }
    \cup { [cmd |-> c, reg |-> r, addr |-> a] :
        c \in {"READ_MEM", "SQRT"}, r \in RegSamples, a \in AddrSamples }
    \cup { [cmd |-> "WRITE_MEM", addr |-> a, src_reg |-> r] :
        a \in AddrSamples, r \in RegSamples }
    \cup { [cmd |-> "NOP"] }

InitAsm ==
    /\ ir_list \in UNION { [1..n -> IRMenu] : n \in 0..MaxIR }
    /\ asm_i = 1
    /\ binary = <<>>
    /\ asm_status = "running"
    /\ code_bytes = <<>>
    /\ regs_count = 0
    /\ data_mem_size = 0
    /\ state = InitState(0, 0)
    /\ pc = 0
    /\ cmd_int = <<>>
    /\ status = "idle"
    /\ error = "none"
    /\ executed = <<>>
    /\ ToIrIdle
    /\ PipeIdle
    /\ DumpIdle
    /\ PairIdle
    /\ GuiIdle

NextAsm == AsmStep \/ AsmReturn

SpecAsm == InitAsm /\ [][NextAsm]_vars

----------------------------------------------------------------------------
(* YAML program -> to_ir -> assemble -> output file / interpreter *)

YInt(n) == [int |-> n]

YStr(t) == [str |-> t]

\* entries of every command: complete, with a key missing, with the value
\* a string, with an operand too wide for its field; WRITE_MEM with each
\* combination of "offset" and "addr"; a command outside the set and an
\* entry without "cmd"
YamlMenu ==
    { [cmd |-> "LOAD_CONST", reg |-> YInt(0), value |-> YInt(123)],
      [cmd |-> "LOAD_CONST", reg |-> YInt(1), value |-> YInt(1048576)],
      [cmd |-> "LOAD_CONST", reg |-> YInt(0)],
      [cmd |-> "LOAD_CONST", reg |-> YStr("r1"), value |-> YInt(1)],
      [cmd |-> "READ_MEM", reg |-> YStr("7"), addr |-> YInt(200)],
      [cmd |-> "READ_MEM", addr |-> YInt(200)],
      [cmd |-> "WRITE_MEM", src_reg |-> YInt(0), offset |-> YInt(5)],
      [cmd |-> "WRITE_MEM", src_reg |-> YInt(0), addr |-> YInt(6)],
      [cmd |-> "WRITE_MEM", src_reg |-> YInt(0), offset |-> YInt(5),
       addr |-> YInt(6)],
      [cmd |-> "WRITE_MEM", src_reg |-> YInt(0)],
      [cmd |-> "WRITE_MEM", offset |-> YInt(5)],
      [cmd |-> "SQRT", reg |-> YInt(1), addr |-> YStr("200")],
      [cmd |-> "SQRT", reg |-> YInt(1)],
      [cmd |-> "JUMP", reg |-> YInt(0)],
      [reg |-> YInt(0), value |-> YInt(1)] }

\* to_ir(prog) is entered
InitPipe ==
    /\ yaml_program \in UNION { [1..n -> YamlMenu] : n \in 0..MaxEntries }
    /\ ir_built = <<>>
    /\ ir_idx = 1
    /\ ir_status = "running"
    /\ ir_error = [kind |-> "none", idx |-> -1]
    /\ AsmIdle
    /\ PipeIdle
    /\ code_bytes = <<>>
    /\ regs_count = 0
    /\ data_mem_size = 0
    /\ state = InitState(0, 0)
    /\ pc = 0
    /\ cmd_int = <<>>
    /\ status = "idle"
    /\ error = "none"
    /\ executed = <<>>
    /\ DumpIdle
    /\ PairIdle
    /\ GuiIdle

NextPipe ==
    \/ ToIrStep
    \/ ToIrReturn
    \/ CallAssemble
    \/ AsmStep
    \/ AsmReturn
    \/ MainWrite
    \/ WorkerRun

SpecPipe == InitPipe /\ [][NextPipe]_vars

----------------------------------------------------------------------------
(* run_program with a dump, and the worker of the GUI *)

\* the memory of these runs
DumpMem == 4

\* programs that end normally with memory written, and programs that fault
\* after a mutation
DumpPrograms ==
    { <<>>,
      W_LoadConst(625, 0, <<0>>) \o W_WriteMem(1, 0, <<0, 0>>),
      W_LoadConst(1048575, 1, <<0>>) \o W_WriteMem(2, 1, <<0, 0>>)
          \o W_Sqrt(1, 2, <<0, 0>>),
      W_LoadConst(625, 0, <<0>>) \o W_WriteMem(1, 0, <<0, 0>>)
          \o RawWord(61, 7, 20, 0, 5, <<0>>),
      W_LoadConst(625, 0, <<0>>) \o W_WriteMem(3, 0, <<0, 0>>)
          \o W_ReadMem(0, 524287, <<0, 1>>) \o W_WriteMem(0, 0, <<0, 0>>) }

\* (start, end): inside the memory, the whole memory, start > end, a
\* negative start, an end at and beyond the memory size; <<>> is no dump
DumpRanges ==
    { <<>>, <<0, 0>>, <<1, 2>>, <<0, 3>>, <<2, 1>>, <<3, 0>>, <<-1, 2>>,
      <<1, 4>>, <<5, 4>>, <<2, -1>> }

\* the text "a-b" the GUI parses has no negative a, and is never absent
WorkerRanges == { r \in DumpRanges : r # <<>> /\ r[1] >= 0 }

\* run_program(bin_path, data_mem_size, regs_count, dump_csv, dump_range)
\* or AssembleRunWorker.run is at the start of the interpreter loop
InitDump ==
    /\ \/ /\ code_bytes \in DumpPrograms
          /\ regs_count = 2
          /\ data_mem_size = DumpMem
          /\ \/ caller = "run_program" /\ dump_range \in DumpRanges
             \/ caller = "worker" /\ dump_range \in WorkerRanges
       \/ /\ code_bytes = W_LoadConst(625, 0, <<0>>)
                            \o W_WriteMem(101, 0, <<0, 0>>)
          /\ regs_count = DEFAULT_REGS
          /\ data_mem_size = DEFAULT_MEM
          /\ caller = "run_program"
          /\ dump_range \in { <<100, 102>>, <<65535, 65536>> }
    /\ state = InitState(regs_count, data_mem_size)
    /\ pc = 0
    /\ cmd_int = <<>>
    /\ status = "running"
    /\ error = "none"
    /\ executed = <<>>
    /\ dump = NoDump
    /\ AsmIdle
    /\ ToIrIdle
    /\ PipeIdle
    /\ PairIdle
    /\ GuiIdle

NextDump ==
    \/ Step
    \/ Halt
    \/ DumpCsv
    \/ WorkerValidate
    \/ TableFill

SpecDump == InitDump /\ [][NextDump]_vars

----------------------------------------------------------------------------
(* two invocations of run_binary_bytes, their steps interleaved *)

\* run_binary_bytes(code_bytes, data_mem_size, regs_count) has been called
Called(code, nregs, nmem) ==
    [code |-> code, regs_count |-> nregs, data_mem_size |-> nmem,
     regs |-> 0, data_mem |-> 0, pc |-> 0, status |-> "called",
     error |-> "none"]

\* programs that write and read the same registers and cells with different
\* values, one that faults after a mutation, the empty one, and one with
\* another configuration
PairCalls ==
    { Called(W_LoadConst(625, 0, <<0>>) \o W_WriteMem(1, 0, <<0, 0>>)
               \o W_Sqrt(1, 1, <<0, 0>>), 2, 2),
      Called(W_LoadConst(1048575, 1, <<0>>) \o W_WriteMem(1, 1, <<0, 0>>)
               \o W_ReadMem(0, 1, <<0, 0>>), 2, 2),
      Called(W_ReadMem(1, 1, <<0, 0>>) \o W_Sqrt(0, 1, <<0, 0>>), 2, 2),
      Called(W_LoadConst(625, 0, <<0>>) \o RawWord(61, 7, 20, 0, 5, <<0>>),
             2, 2),
      Called(<<>>, 2, 2),
      Called(W_LoadConst(24, 2, <<1>>) \o W_WriteMem(2, 2, <<0, 0>>),
             DEFAULT_REGS, 3) }

InitPair ==
    /\ runs \in [1..2 -> PairCalls]
    /\ heap = <<>>
    /\ code_bytes = <<>>
    /\ regs_count = 0
    /\ data_mem_size = 0
    /\ state = InitState(0, 0)
    /\ pc = 0
    /\ cmd_int = <<>>
    /\ status = "idle"
    /\ error = "none"
    /\ executed = <<>>
    /\ AsmIdle
    /\ ToIrIdle
    /\ PipeIdle
    /\ DumpIdle
    /\ GuiIdle

\* either invocation takes its next step
EnterOne == \E r \in DOMAIN runs : PairEnter(r)

StepOne == \E r \in DOMAIN runs : PairStep(r)

HaltOne == \E r \in DOMAIN runs : PairHalt(r)

NextPair == EnterOne \/ StepOne \/ HaltOne

SpecPair == InitPair /\ [][NextPair]_vars

----------------------------------------------------------------------------
(* the window of the GUI: clicks, worker threads and the main thread's     *)
(* event loop, in any order                                                *)

\* the clicks of one session
MaxClicks == 2

\* what yaml.safe_load gives for the editor's text: a program that runs,
\* programs that fail in to_ir, in assemble and in the interpreter, a
\* mapping without "program", a scalar, and a text that is no YAML
GuiPrograms ==
    { << [cmd |-> "LOAD_CONST", reg |-> YInt(0), value |-> YInt(625)],
         [cmd |-> "WRITE_MEM", src_reg |-> YInt(0), offset |-> YInt(1)] >>,
      << [cmd |-> "JUMP", reg |-> YInt(0)] >>,
      << [cmd |-> "LOAD_CONST", reg |-> YInt(1), value |-> YInt(1048576)] >>,
      << [cmd |-> "WRITE_MEM", src_reg |-> YInt(0), offset |-> YInt(5)] >> }

GuiDocuments ==
    { [kind |-> "mapping", program |-> p] : p \in GuiPrograms }
      \cup { [kind |-> "mapping"], [kind |-> "scalar"], [kind |-> "invalid"] }

\* the text of the range field: ranges inside the memory, start > end, an
\* end past the memory, no "-", no numbers
GuiRangeTexts == { "0-3", "1-2", "2-1", "1-4", "100", "a-b" }

\* the arguments on_assemble_run reads from the widgets: every document
\* with a valid range, and the program that runs with every range text
WorkerInputs ==
    { [data |-> d, mem_size |-> 4, regs_count |-> 2,
       dump_range_text |-> t] :
        d \in GuiDocuments, t \in {"0-3"} }
      \cup { [data |-> d, mem_size |-> 4, regs_count |-> 2,
              dump_range_text |-> t] :
               d \in { x \in GuiDocuments :
                         x = [kind |-> "mapping",
                              program |->
                                << [cmd |-> "LOAD_CONST", reg |-> YInt(0),
                                    value |-> YInt(625)],
                                   [cmd |-> "WRITE_MEM", src_reg |-> YInt(0),
                                    offset |-> YInt(1)] >>] },
               t \in GuiRangeTexts }

\* UVMGUI.__init__ has run and the window is shown
InitGui ==
    /\ GuiIdle
    /\ code_bytes = <<>>
    /\ regs_count = 0
    /\ data_mem_size = 0
    /\ state = InitState(0, 0)
    /\ pc = 0
    /\ cmd_int = <<>>
    /\ status = "idle"
    /\ error = "none"
    /\ executed = <<>>
    /\ AsmIdle
    /\ ToIrIdle
    /\ PipeIdle
    /\ DumpIdle
    /\ PairIdle

\* the user clicks "Assemble & Run"
Click ==
    /\ Len(workers) < MaxClicks
    /\ \E inp \in WorkerInputs : on_assemble_run(inp)

\* the thread of some worker runs run()
WorkerRuns == \E n \in DOMAIN workers : worker_run(n)

\* the thread of some worker ends
WorkerReturns == \E n \in DOMAIN workers : worker_return(n)

NextGui ==
    \/ Click
    \/ WorkerRuns
    \/ WorkerReturns
    \/ on_worker_finished
    \/ on_worker_error

SpecGui == InitGui /\ [][NextGui]_vars

----------------------------------------------------------------------------
(* The instruction set as section 4.1 tabulates it, read off the bytes of  *)
(* a word without the codec.                                               *)

\* bit k (0..31) of the little-endian word in the 4 bytes b
RawBit(b, k) == (b[(k \div 8) + 1] \div (2 ^ (k % 8))) % 2

\* the number in bits lo .. lo+n-1
RECURSIVE RawField(_, _, _)
RawField(b, lo, n) ==
    IF n = 0 THEN 0 ELSE RawBit(b, lo) + 2 * RawField(b, lo + 1, n - 1)

KnownCmds == {"LOAD_CONST", "READ_MEM", "WRITE_MEM", "SQRT"}

\* every operand of the record is below 2^width of its field
OperandsFit(ir) ==
    /\ ir.cmd = "LOAD_CONST" => ir.value < 2 ^ 20 /\ ir.reg < 2 ^ 5
    /\ ir.cmd \in {"READ_MEM", "SQRT"} => ir.reg < 2 ^ 5 /\ ir.addr < 2 ^ 19
    /\ ir.cmd = "WRITE_MEM" => ir.addr < 2 ^ 19 /\ ir.src_reg < 2 ^ 5

\* the i-th 4-byte word of a buffer, i from 1
WordAt(buf, i) == SubSeq(buf, INSTR_SIZE * (i - 1) + 1, INSTR_SIZE * i)

\* the interpreter loop is about to fetch a whole word
Fetching == status = "running" /\ pc + INSTR_SIZE <= Len(code_bytes)

\* the 4 bytes at pc
CurWord == WordAt(code_bytes, (pc \div INSTR_SIZE) + 1)

WholeWords == Len(code_bytes) \div INSTR_SIZE

\* byte offsets 0, 4, ..., 4(n-1)
Offsets(n) == [i \in 1..n |-> INSTR_SIZE * (i - 1)]

KnownOps == {29, 4, 43, 2}

\* a decoded register index or memory address of the word b lies outside
\* a register file of nregs and a memory of nmem cells
OutOfRange(b, nregs, nmem) ==
    LET op == RawField(b, 0, 6)
    IN  \/ op = 29 /\ RawField(b, 26, 5) >= nregs
        \/ op \in {4, 2} /\ (RawField(b, 6, 5) >= nregs
                             \/ RawField(b, 11, 19) >= nmem)
        \/ op = 43 /\ (RawField(b, 6, 19) >= nmem
                       \/ RawField(b, 25, 5) >= nregs)

\* every whole word of the buffer has a known opcode and indexes inside
\* the configuration
AllValid ==
    \A i \in 1..WholeWords :
        /\ RawField(WordAt(code_bytes, i), 0, 6) \in KnownOps
        /\ ~OutOfRange(WordAt(code_bytes, i), regs_count, data_mem_size)

\* the state after the first n words of buf, executed in order from st
RECURSIVE RunWords(_, _, _)
RunWords(buf, n, st) ==
    IF n = 0 THEN st
    ELSE decode_and_execute_one(from_bytes(WordAt(buf, n)),
                                RunWords(buf, n - 1, st)).state

\* the number in bits lo .. lo+n-1 of the integer w
RECURSIVE IntField(_, _, _)
IntField(w, lo, n) ==
    IF n = 0 THEN 0
    ELSE (IF lo + 1 <= Len(w) THEN w[lo + 1] ELSE 0)
         + 2 * IntField(w, lo + 1, n - 1)

\* r is the floor square root of m
IsFloorRoot(r, m) == r >= 0 /\ r * r <= m /\ m < (r + 1) * (r + 1)

\* section 4.3: what the instruction op does to the state st, given the
\* word w it was decoded from; post and err are the state and the error
\* ("none" when it completes) it ends with
Behaves(op, w, st, post, err) ==
    LET InRegs(r) == r \in DOMAIN st.regs
        InMem(a) == a \in DOMAIN st.data_mem
    IN  /\ op = 29 =>
             LET value == IntField(w, 6, 20)
                 reg == IntField(w, 26, 5)
             IN  IF InRegs(reg)
                 THEN err = "none" /\ post = [st EXCEPT !.regs[reg] = value]
                 ELSE err = "IndexError" /\ post = st
        /\ op = 4 =>
             LET reg == IntField(w, 6, 5)
                 addr == IntField(w, 11, 19)
             IN  IF InRegs(reg) /\ InMem(addr)
                 THEN /\ err = "none"
                      /\ post = [st EXCEPT !.regs[reg] = st.data_mem[addr]]
                 ELSE err = "IndexError" /\ post = st
        /\ op = 43 =>
             LET addr == IntField(w, 6, 19)
                 src_reg == IntField(w, 25, 5)
             IN  IF InRegs(src_reg) /\ InMem(addr)
                 THEN /\ err = "none"
                      /\ post = [st EXCEPT !.data_mem[addr] = st.regs[src_reg]]
                 ELSE err = "IndexError" /\ post = st
        /\ op = 2 =>
             LET reg == IntField(w, 6, 5)
                 addr == IntField(w, 11, 19)
             IN  IF ~InMem(addr) THEN err = "IndexError" /\ post = st
                 ELSE IF st.data_mem[addr] < 0
                 THEN err = "SqrtNegative" /\ post = st
                 ELSE IF ~InRegs(reg) THEN err = "IndexError" /\ post = st
                 ELSE /\ err = "none"
                      /\ IsFloorRoot(post.regs[reg], st.data_mem[addr])
                      /\ post = [st EXCEPT !.regs[reg] = post.regs[reg]]

----------------------------------------------------------------------------
(* Claims *)

\* C1: round trip. Every record assemble has encoded (all operands within
\* their widths) comes back from its 4 little-endian bytes, decoded the way
\* decode_and_execute_one decodes, with the same opcode and the same two
\* operand values.
C1_RoundTrip ==
    /\ Len(binary) = INSTR_SIZE * (asm_i - 1)
    /\ \A i \in 1..(asm_i - 1) :
         LET ir == ir_list[i]
             d == decode_fields(from_bytes(WordAt(binary, i)))
         IN  /\ ir.cmd \in KnownCmds
             /\ ir.cmd = "LOAD_CONST" =>
                  d = [A |-> 29, B |-> ir.value, C |-> ir.reg]
             /\ ir.cmd = "READ_MEM" =>
                  d = [A |-> 4, B |-> ir.reg, C |-> ir.addr]
             /\ ir.cmd = "WRITE_MEM" =>
                  d = [A |-> 43, B |-> ir.addr, C |-> ir.src_reg]
             /\ ir.cmd = "SQRT" =>
                  d = [A |-> 2, B |-> ir.reg, C |-> ir.addr]

\* two records with every operand at 2^n - 1 were encoded and returned
C1_Witness ==
    /\ asm_status = "returned"
    /\ Len(ir_list) = 2
    /\ ir_list[1] = [cmd |-> "LOAD_CONST", value |-> 1048575, reg |-> 31]
    /\ ir_list[2] = [cmd |-> "WRITE_MEM", addr |-> 524287, src_reg |-> 31]
    /\ binary = <<221, 255, 255, 127, 235, 255, 255, 63>>

\* C2: encoding never truncates. A record is encoded only when every
\* operand is below 2^n; a record with an operand of 2^n or more raises a
\* range error and adds no byte, so no emitted word carries a spilled bit;
\* a record whose operands all fit (2^n - 1 included) never raises.
C2_NoTruncation ==
    /\ Len(binary) = INSTR_SIZE * (asm_i - 1)
    /\ \A i \in 1..(asm_i - 1) :
         /\ ir_list[i].cmd \in KnownCmds
         /\ OperandsFit(ir_list[i])
         /\ RawField(WordAt(binary, i), 0, 6) =
              CASE ir_list[i].cmd = "LOAD_CONST" -> 29
                [] ir_list[i].cmd = "READ_MEM" -> 4
                [] ir_list[i].cmd = "WRITE_MEM" -> 43
                [] ir_list[i].cmd = "SQRT" -> 2
    /\ asm_status = "raised" =>
         /\ asm_i <= Len(ir_list)
         /\ IF ir_list[asm_i].cmd \in KnownCmds
            THEN ~OperandsFit(ir_list[asm_i]) /\ error = "RangeError"
            ELSE error = "UnknownIRCommand"
    /\ asm_status = "returned" => asm_i = Len(ir_list) + 1

\* value 2^20 - 1 was encoded, then value 2^20 was refused
C2_Witness ==
    /\ asm_status = "raised"
    /\ error = "RangeError"
    /\ asm_i = 2
    /\ ir_list[1] = [cmd |-> "LOAD_CONST", value |-> 1048575, reg |-> 31]
    /\ ir_list[2] = [cmd |-> "LOAD_CONST", value |-> 1048576, reg |-> 0]
    /\ Len(binary) = 4

\* C3: instruction effects. A word whose fields index inside the register
\* file and the memory executes without fault, and then LOAD_CONST(value,
\* reg) leaves registers[reg] = value, READ_MEM(reg, addr) leaves
\* registers[reg] = the memory[addr] of before, WRITE_MEM(addr, src_reg)
\* leaves memory[addr] = the registers[src_reg] of before.
C3_Effects ==
    [][Fetching =>
        LET b == CurWord
            op == RawField(b, 0, 6)
        IN  (op \in {29, 4, 43} /\ ~OutOfRange(b, regs_count, data_mem_size))
            => /\ status' = "running"
               /\ op = 29 =>
                    state'.regs[RawField(b, 26, 5)] = RawField(b, 6, 20)
               /\ op = 4 =>
                    state'.regs[RawField(b, 6, 5)]
                        = state.data_mem[RawField(b, 11, 19)]
               /\ op = 43 =>
                    state'.data_mem[RawField(b, 6, 19)]
                        = state.regs[RawField(b, 25, 5)]
    ]_vars

\* LOAD_CONST 625 -> r0, WRITE_MEM mem[1] <- r0, READ_MEM r1 <- mem[1]
C3_Witness ==
    /\ status = "halted"
    /\ executed = <<0, 4, 8>>
    /\ state.regs[0] = 625
    /\ state.data_mem[1] = 625
    /\ state.regs[1] = 625

\* C4: SQRT(reg, addr) on memory[addr] = m >= 0 executes without fault and
\* leaves registers[reg] = r with r >= 0 and r*r <= m < (r+1)*(r+1).
C4_Sqrt ==
    [][Fetching =>
        LET b == CurWord
            reg == RawField(b, 6, 5)
            addr == RawField(b, 11, 19)
        IN  (/\ RawField(b, 0, 6) = 2
             /\ reg < regs_count
             /\ addr < data_mem_size
             /\ state.data_mem[addr] >= 0)
            => LET m == state.data_mem[addr]
                   r == state'.regs[reg]
               IN  /\ status' = "running"
                   /\ r >= 0
                   /\ r * r <= m
                   /\ m < (r + 1) * (r + 1)
    ]_vars

\* LOAD_CONST 625 -> WRITE_MEM 200 -> SQRT reg=1 addr=200 under the default
\* sizes has ended with registers[1] = 25
C4_Witness ==
    /\ regs_count = DEFAULT_REGS
    /\ data_mem_size = DEFAULT_MEM
    /\ status = "halted"
    /\ executed = <<0, 4, 8>>
    /\ state.data_mem[200] = 625
    /\ state.regs[1] = 25

\* C5: a buffer whose whole words are all valid and in bounds never
\* faults; a run that completes has executed exactly the floor(L/4) words
\* at offsets 0, 4, 8, ... once each in ascending order, and its final
\* state is the state those whole words produce: the L mod 4 bytes after
\* them have no part in it.
C5_WholeWordsOnly ==
    /\ status = "fault" => ~AllValid
    /\ status = "halted" =>
         /\ executed = Offsets(WholeWords)
         /\ pc = INSTR_SIZE * WholeWords
         /\ error = "none"
         /\ state = RunWords(SubSeq(code_bytes, 1, INSTR_SIZE * WholeWords),
                             WholeWords,
                             InitState(regs_count, data_mem_size))

\* three whole words and the 3 trailing bytes 5D 9C 00 (which, read as a
\* word, would load 625 into r0): the run completed and r0 is 0
C5_Witness ==
    /\ status = "halted"
    /\ Len(code_bytes) = 15
    /\ SubSeq(code_bytes, 13, 15) = <<93, 156, 0>>
    /\ executed = <<0, 4, 8>>
    /\ state.regs[0] = 0
    /\ state.regs[1] = 1048575

\* C6: execution is linear and terminates. The program counter starts at
\* 0; a step that executes a word moves it forward by exactly 4 and no
\* other step moves it; the executed offsets are strictly ascending (no
\* word twice), at most floor(L/4) of them; a stopped run takes no further
\* step; and every run eventually halts or stops at a fault.
C6_LinearTermination ==
    /\ pc = 0
    /\ [][/\ status = "running"
          /\ executed' # executed =>
                /\ pc' = pc + INSTR_SIZE
                /\ executed' = Append(executed, pc)
          /\ executed' = executed => pc' = pc
       ]_vars
    /\ [](/\ pc = INSTR_SIZE * Len(executed)
          /\ Len(executed) <= WholeWords
          /\ \A i, j \in DOMAIN executed : i < j => executed[i] < executed[j])
    /\ <>(status \in {"halted", "fault"})

\* a run stopped at its third word, after two instruction steps
C6_Witness ==
    /\ status = "fault"
    /\ pc = 8
    /\ executed = <<0, 4>>
    /\ WholeWords = 3

\* C7: partial mutation on failure. The step that faults changes neither
\* the registers nor the memory (nor pc); a faulted run takes no further
\* step; and in a faulted run stopped at word k, words 0..k-1 are exactly
\* the words executed, word k is the one that raises the recorded error,
\* and the state is the state words 0..k-1 produce from the zeroed state.
C7_PartialMutation ==
    /\ [][/\ status # "fault"
          /\ status' = "fault" =>
                /\ state' = state
                /\ pc' = pc
                /\ executed' = executed
       ]_vars
    /\ [](status = "fault" =>
            LET k == Len(executed)
            IN  /\ k < WholeWords
                /\ pc = INSTR_SIZE * k
                /\ executed = Offsets(k)
                /\ error \in {"UnknownOpcode", "IndexError", "SqrtNegative"}
                /\ \/ RawField(WordAt(code_bytes, k + 1), 0, 6) \notin KnownOps
                   \/ OutOfRange(WordAt(code_bytes, k + 1),
                                 regs_count, data_mem_size)
                /\ state = RunWords(code_bytes, k,
                                    InitState(regs_count, data_mem_size)))

\* LOAD_CONST 625 -> r0 and WRITE_MEM mem[1] <- r0 were executed, the
\* third word faulted, and both mutations are still there
C7_Witness ==
    /\ status = "fault"
    /\ error = "IndexError"
    /\ executed = <<0, 4>>
    /\ state.regs[0] = 625
    /\ state.data_mem[1] = 625

\* C8: index out of range. The register file and the memory keep their
\* configured lengths in every state; a word with a known opcode and a
\* register index >= regs_count or an address >= data_mem_size stops the
\* run with an index error and changes no cell.
C8_IndexError ==
    /\ [](/\ DOMAIN state.regs = 0..(regs_count - 1)
          /\ DOMAIN state.data_mem = 0..(data_mem_size - 1))
    /\ [][Fetching =>
            LET b == CurWord
            IN  (/\ RawField(b, 0, 6) \in KnownOps
                 /\ OutOfRange(b, regs_count, data_mem_size))
                => /\ status' = "fault"
                   /\ error' = "IndexError"
                   /\ state' = state
       ]_vars

\* WRITE_MEM to address 2 of a 2-word memory raised the index error and
\* cell 1, written before, is as it was
C8_Witness ==
    /\ status = "fault"
    /\ error = "IndexError"
    /\ data_mem_size = 2
    /\ Len(executed) = 2
    /\ WordAt(code_bytes, 3) = W_WriteMem(2, 1, <<0, 0>>)
    /\ state.data_mem[1] = 625

\* C9: unknown opcode. A call of decode_and_execute_one on a word whose
\* low 6 bits are none of 29, 4, 43, 2 raises the unknown-opcode error and
\* changes no register and no memory cell; on a word whose low 6 bits are
\* one of the four it is never that error, and what happens is what that
\* instruction does with its own two fields, whatever the other bits are.
C9_Dispatch ==
    [][status = "direct" =>
        LET op == IntField(cmd_int, 0, 6)
        IN  /\ op \notin KnownOps =>
                error' = "UnknownOpcode" /\ state' = state
            /\ op \in KnownOps =>
                /\ error' # "UnknownOpcode"
                /\ Behaves(op, cmd_int, state, state', error')
    ]_vars

\* the word with opcode 61 (29 with bit 5 set) was refused and the
\* caller's registers and memory are as they were
C9_Witness ==
    /\ status = "direct"
    /\ Len(executed) = 1
    /\ error = "UnknownOpcode"
    /\ IntField(cmd_int, 0, 6) = 61
    /\ state.regs[0] = 7
    /\ state.data_mem[1] = 25

\* C10: SQRT domain error. A call of decode_and_execute_one on SQRT(reg,
\* addr) with memory[addr] negative raises the domain error and changes no
\* register and no memory cell, whether or not reg exists.
C10_SqrtDomain ==
    [][status = "direct" =>
        LET addr == IntField(cmd_int, 11, 19)
        IN  (/\ IntField(cmd_int, 0, 6) = 2
             /\ addr \in DOMAIN state.data_mem
             /\ state.data_mem[addr] < 0)
            => error' = "SqrtNegative" /\ state' = state
    ]_vars

\* SQRT reg=1 addr=1 on memory[1] = -4 raised the domain error and
\* registers[1] still holds 7
C10_Witness ==
    /\ status = "direct"
    /\ Len(executed) = 1
    /\ error = "SqrtNegative"
    /\ cmd_int = from_bytes(W_Sqrt(1, 1, <<0, 0>>))
    /\ state.data_mem[1] = -4
    /\ state.regs[1] = 7

----------------------------------------------------------------------------
(* C11 *)

\* bit k (0..31) of the word section 4.1 lays out for the record: the
\* opcode in bits 0-5, the two operands at their offsets, 0 elsewhere
RecordBit(rec, k) ==
    LET bit(n, j) == (n \div (2 ^ j)) % 2
        in(lo, w) == lo <= k /\ k < lo + w
    IN  CASE rec.cmd = "LOAD_CONST" ->
               IF in(0, 6) THEN bit(29, k)
               ELSE IF in(6, 20) THEN bit(rec.value, k - 6)
               ELSE IF in(26, 5) THEN bit(rec.reg, k - 26)
               ELSE 0
          [] rec.cmd = "READ_MEM" ->
               IF in(0, 6) THEN bit(4, k)
               ELSE IF in(6, 5) THEN bit(rec.reg, k - 6)
               ELSE IF in(11, 19) THEN bit(rec.addr, k - 11)
               ELSE 0
          [] rec.cmd = "WRITE_MEM" ->
               IF in(0, 6) THEN bit(43, k)
               ELSE IF in(6, 19) THEN bit(rec.addr, k - 6)
               ELSE IF in(25, 5) THEN bit(rec.src_reg, k - 25)
               ELSE 0
          [] rec.cmd = "SQRT" ->
               IF in(0, 6) THEN bit(2, k)
               ELSE IF in(6, 5) THEN bit(rec.reg, k - 6)
               ELSE IF in(11, 19) THEN bit(rec.addr, k - 11)
               ELSE 0

\* the 4 bytes of that word, least significant byte first
LittleEndian(rec) ==
    [j \in 1..4 |->
        RecordBit(rec, 8 * j - 8) + 2 * RecordBit(rec, 8 * j - 7)
        + 4 * RecordBit(rec, 8 * j - 6) + 8 * RecordBit(rec, 8 * j - 5)
        + 16 * RecordBit(rec, 8 * j - 4) + 32 * RecordBit(rec, 8 * j - 3)
        + 64 * RecordBit(rec, 8 * j - 2) + 128 * RecordBit(rec, 8 * j - 1)]

\* a record of one of the four commands whose operands fit their fields
ValidRecord(rec) == rec.cmd \in KnownCmds /\ OperandsFit(rec)

\* C11: assembly preserves order and count. An IR list of N valid records
\* never makes assemble raise, and what assemble returns is exactly 4*N
\* bytes in which bytes 4i..4i+3 are the little-endian word of record i:
\* nothing before, between or after the words, no record moved, dropped
\* or doubled.
C11_OrderAndCount ==
    /\ (\A i \in DOMAIN ir_list : ValidRecord(ir_list[i]))
          => asm_status # "raised"
    /\ asm_status = "returned" =>
          /\ Len(binary) = INSTR_SIZE * Len(ir_list)
          /\ \A i \in DOMAIN ir_list :
                WordAt(binary, i) = LittleEndian(ir_list[i])

\* READ_MEM reg=0 addr=200 then LOAD_CONST 123 -> r0 came back as the
\* words 04 40 06 00 and DD 1E 00 00, in that order
C11_Witness ==
    /\ asm_status = "returned"
    /\ ir_list = << [cmd |-> "READ_MEM", reg |-> 0, addr |-> 200],
                    [cmd |-> "LOAD_CONST", value |-> 123, reg |-> 0] >>
    /\ binary = <<4, 64, 6, 0, 221, 30, 0, 0>>

----------------------------------------------------------------------------
(* C12 - C14: the YAML entries as section 4.2 lists them *)

\* the number a scalar stands for
NumOf(x) ==
    IF "int" \in DOMAIN x THEN x.int
    ELSE CASE x.str = "7" -> 7 [] x.str = "200" -> 200

IsNumber(x) == "int" \in DOMAIN x \/ x.str \in {"7", "200"}

\* the command is one of the four and its required operand keys are there
EntryValid(e) ==
    /\ "cmd" \in DOMAIN e
    /\ e.cmd \in KnownCmds
    /\ e.cmd = "LOAD_CONST" => {"reg", "value"} \subseteq DOMAIN e
    /\ e.cmd \in {"READ_MEM", "SQRT"} => {"reg", "addr"} \subseteq DOMAIN e
    /\ e.cmd = "WRITE_MEM" =>
          /\ "src_reg" \in DOMAIN e
          /\ "offset" \in DOMAIN e \/ "addr" \in DOMAIN e

\* the operand keys a valid entry's record is built from
UsedKeys(e) ==
    CASE e.cmd = "LOAD_CONST" -> {"reg", "value"}
      [] e.cmd \in {"READ_MEM", "SQRT"} -> {"reg", "addr"}
      [] e.cmd = "WRITE_MEM" ->
           {"src_reg", IF "offset" \in DOMAIN e THEN "offset" ELSE "addr"}

\* every operand of the valid entry is an integer or a decimal string
Converts(e) == \A k \in UsedKeys(e) : IsNumber(e[k])

OpcodeOf(cmd) ==
    CASE cmd = "LOAD_CONST" -> 29
      [] cmd = "READ_MEM" -> 4
      [] cmd = "WRITE_MEM" -> 43
      [] cmd = "SQRT" -> 2

\* the bytes are one word per entry of the program, each with the opcode
\* of its entry
CoversEveryEntry(bytes) ==
    /\ Len(bytes) = INSTR_SIZE * Len(yaml_program)
    /\ \A i \in DOMAIN yaml_program :
          /\ EntryValid(yaml_program[i])
          /\ RawField(WordAt(bytes, i), 0, 6) = OpcodeOf(yaml_program[i].cmd)

\* C12: no partial success. Bytes reach the output file or the
\* interpreter only when to_ir and assemble have both returned, and they
\* are then the complete buffer, one word per entry of the program; once
\* to_ir or assemble has raised, whatever entry raised, no file exists and
\* the interpreter was given nothing.
C12_NoPartialSuccess ==
    /\ out_file.exists =>
          /\ ir_status = "returned" /\ asm_status = "returned"
          /\ CoversEveryEntry(out_file.bytes)
    /\ run_arg.passed =>
          /\ ir_status = "returned" /\ asm_status = "returned"
          /\ CoversEveryEntry(run_arg.bytes)
    /\ (ir_status = "raised" \/ asm_status = "raised") =>
          /\ out_file = [exists |-> FALSE, bytes |-> <<>>]
          /\ run_arg = [passed |-> FALSE, bytes |-> <<>>]

\* of three entries the middle one (value 2^20) made assemble raise after
\* the first word was encoded: no file, nothing run
C12_Witness ==
    /\ Len(yaml_program) = 3
    /\ ir_status = "returned"
    /\ asm_status = "raised"
    /\ asm_i = 2
    /\ Len(binary) = 4
    /\ ~out_file.exists
    /\ ~run_arg.passed

C14_WriteMemAlias ==
    /\ \A i \in DOMAIN ir_built :
          LET e == yaml_program[i]
          IN  e.cmd = "WRITE_MEM" =>
                /\ "src_reg" \in DOMAIN e
                /\ "offset" \in DOMAIN e =>
                      ir_built[i].addr = NumOf(e.offset)
                /\ ("offset" \notin DOMAIN e /\ "addr" \in DOMAIN e) =>
                      ir_built[i].addr = NumOf(e.addr)
                /\ "offset" \in DOMAIN e \/ "addr" \in DOMAIN e
    /\ (ir_status \in {"returned", "raised"} /\ ir_idx \in DOMAIN yaml_program)
          => LET e == yaml_program[ir_idx]
             IN  ("cmd" \in DOMAIN e /\ e.cmd = "WRITE_MEM"
                  /\ "src_reg" \in DOMAIN e) =>
                    IF "offset" \notin DOMAIN e /\ "addr" \notin DOMAIN e
                    THEN /\ ir_status = "raised"
                         /\ ir_error = [kind |-> "MissingFields",
                                        idx |-> ir_idx - 1]
                    ELSE ~Converts(e)

\* offset 5 with addr 6 gave address 5, addr 6 alone gave 6, offset 5
\* alone gave 5
C14_Witness ==
    /\ ir_status = "returned"
    /\ Len(yaml_program) = 3
    /\ DOMAIN yaml_program[1] = {"cmd", "src_reg", "offset", "addr"}
    /\ DOMAIN yaml_program[2] = {"cmd", "src_reg", "addr"}
    /\ DOMAIN yaml_program[3] = {"cmd", "src_reg", "offset"}
    /\ ir_built[1].addr = 5
    /\ ir_built[2].addr = 6
    /\ ir_built[3].addr = 5

----------------------------------------------------------------------------
(* C15 - C17: the memory dump of section 4.4 *)

\* a dump was asked for and the program has dealt with the request
DumpHandled == dump.status \in {"written", "raised"}

\* 0 <= start <= end < memory size
ValidRange ==
    /\ dump_range # <<>>
    /\ 0 <= dump_range[1]
    /\ dump_range[1] <= dump_range[2]
    /\ dump_range[2] < data_mem_size

\* C15: dump range validation, as claimed. Whenever a dump is requested
\* for [start, end] with start > end, start < 0 or end >= the memory
\* size, the request fails with a range error and no (address, value) row
\* is produced.
C15_RangeValidation ==
    (DumpHandled /\ ~ValidRange) =>
        /\ dump.status = "raised"
        /\ dump.error \in {"IndexError", "ValueError"}
        /\ dump.rows = <<>>

\* C16: dump content. A dump over a valid range [start, end] does not
\* fail and is exactly end - start + 1 pairs, the i-th being (start + i,
\* memory[start + i]) counted from 0, where memory is that of the final
\* state: the state the whole words of the program produce.
C16_DumpContent ==
    (DumpHandled /\ ValidRange) =>
        LET start == dump_range[1]
            end == dump_range[2]
        IN  /\ dump.status = "written"
            /\ Len(dump.rows) = end - start + 1
            /\ \A a \in start..end :
                  dump.rows[a - start + 1] = <<a, state.data_mem[a]>>
            /\ status = "halted"
            /\ state = RunWords(code_bytes, WholeWords,
                                InitState(regs_count, data_mem_size))

\* the range [100, 102] of a memory of 65536 words after 625 was written
\* to address 101 gave exactly these three pairs
C16_Witness ==
    /\ data_mem_size = DEFAULT_MEM
    /\ dump_range = <<100, 102>>
    /\ dump.status = "written"
    /\ dump.rows = << <<100, 0>>, <<101, 625>>, <<102, 0>> >>

\* C17: dump ordering and purity. As long as the loop runs, and when it
\* has stopped at a fault, there is no dump: nothing opened, no row. The
\* step that produces the dump (or refuses the range) is taken with every
\* whole word executed, and it changes no register, no memory cell and
\* nothing else of the run.
C17_DumpAfterRun ==
    /\ [](status \in {"running", "fault"} => dump = NoDump)
    /\ [][dump' # dump =>
            /\ status = "halted"
            /\ executed = Offsets(WholeWords)
            /\ pc = INSTR_SIZE * WholeWords
            /\ state' = state
            /\ UNCHANGED <<status, error, pc, executed, code_bytes>>
       ]_vars

\* three words were executed, then the dump of [1, 2] was written, and
\* the registers and the memory are what the words left
C17_Witness ==
    /\ caller = "run_program"
    /\ executed = <<0, 4, 8>>
    /\ dump.status = "written"
    /\ dump.rows = << <<1, 0>>, <<2, 1048575>> >>
    /\ state.regs[1] = 1023
    /\ state.data_mem[2] = 1048575

----------------------------------------------------------------------------
(* C18 *)

\* run_binary_bytes on its own: the words from offset at on, from st
RECURSIVE RunFrom(_, _, _)
RunFrom(code, at, st) ==
    IF at + INSTR_SIZE > Len(code)
    THEN [status |-> "halted", error |-> "none", state |-> st]
    ELSE LET res == decode_and_execute_one(
                       from_bytes(SubSeq(code, at + 1, at + INSTR_SIZE)), st)
         IN  IF res.error # "none"
             THEN [status |-> "fault", error |-> res.error, state |-> st]
             ELSE RunFrom(code, at + INSTR_SIZE, res.state)

RunAlone(run) ==
    RunFrom(run.code, 0, InitState(run.regs_count, run.data_mem_size))

Started(run) == run.status # "called"

\* C18: isolation of invocations. With the steps of two invocations
\* interleaved in any order, the two never hold the same list; a step of
\* one leaves the registers and the memory of the other as they were; at
\* every moment an invocation's state is the state its own first pc/4
\* words produce from zeroes; and an invocation that has ended has the
\* outcome (returned or the fault), the registers and the memory it has
\* when run alone.
C18_Isolation ==
    /\ [](\A r \in DOMAIN runs : Started(runs[r]) =>
            /\ runs[r].regs # runs[r].data_mem
            /\ \A q \in DOMAIN runs \ {r} : Started(runs[q]) =>
                  {runs[r].regs, runs[r].data_mem}
                     \cap {runs[q].regs, runs[q].data_mem} = {}
            /\ state_of(heap, runs[r]) =
                  RunWords(runs[r].code, runs[r].pc \div INSTR_SIZE,
                           InitState(runs[r].regs_count,
                                     runs[r].data_mem_size))
            /\ runs[r].status \in {"halted", "fault"} =>
                  LET alone == RunAlone(runs[r])
                  IN  /\ runs[r].status = alone.status
                      /\ runs[r].error = alone.error
                      /\ state_of(heap, runs[r]) = alone.state)
    /\ [][\A r \in DOMAIN runs :
            (Started(runs[r]) /\ runs'[r] = runs[r]) =>
                state_of(heap', runs[r]) = state_of(heap, runs[r])
       ]_vars

\* both invocations have ended; the first wrote 625 to r0 and to cell 1
\* and left 25 in r1, the second wrote 1048575 to r1, to cell 1 and to r0
C18_Witness ==
    /\ runs[1].status = "halted"
    /\ runs[2].status = "halted"
    /\ heap[runs[1].regs] = (0 :> 625) @@ (1 :> 25)
    /\ heap[runs[1].data_mem] = (0 :> 0) @@ (1 :> 625)
    /\ heap[runs[2].regs] = (0 :> 1048575) @@ (1 :> 1048575)
    /\ heap[runs[2].data_mem] = (0 :> 0) @@ (1 :> 1048575)

----------------------------------------------------------------------------
(* C19, C20 *)

\* the largest number a 20-bit field holds
MaxValue == 2 ^ 20 - 1

\* C19: value-range invariant. In every state of a run from the zeroed
\* state, whatever the bytes of the buffer, every register and every
\* memory cell holds an integer in 0 .. 2^20 - 1, and no run stops with
\* the SQRT domain error.
C19_ValueRange ==
    /\ state.regs \in [0..(regs_count - 1) -> 0..MaxValue]
    /\ state.data_mem \in [0..(data_mem_size - 1) -> 0..MaxValue]
    /\ error # "SqrtNegative"

\* 2^20 - 1 went through a register and a memory cell, and SQRT of it
\* left 1023
C19_Witness ==
    /\ status = "halted"
    /\ data_mem_size = 3
    /\ state.regs[1] = MaxValue
    /\ state.data_mem[2] = MaxValue
    /\ state.regs[2] = 1023

\* C20: frame of each instruction. One call of decode_and_execute_one
\* keeps the lengths of both lists and changes at most one cell:
\* LOAD_CONST, READ_MEM and SQRT leave the whole memory and every
\* register but the destination as they were, WRITE_MEM leaves every
\* register and every cell but memory[addr] as they were, and a word of
\* no known opcode changes nothing.
C20_Frame ==
    [][status = "direct" =>
        LET op == IntField(cmd_int, 0, 6)
            dest == IF op = 29 THEN IntField(cmd_int, 26, 5)
                    ELSE IntField(cmd_int, 6, 5)
            addr == IntField(cmd_int, 6, 19)
        IN  /\ DOMAIN state'.regs = DOMAIN state.regs
            /\ DOMAIN state'.data_mem = DOMAIN state.data_mem
            /\ op \in {29, 4, 2} =>
                  /\ state'.data_mem = state.data_mem
                  /\ \A r \in DOMAIN state.regs \ {dest} :
                        state'.regs[r] = state.regs[r]
            /\ op = 43 =>
                  /\ state'.regs = state.regs
                  /\ \A a \in DOMAIN state.data_mem \ {addr} :
                        state'.data_mem[a] = state.data_mem[a]
            /\ op \notin KnownOps => state' = state
    ]_vars

\* SQRT reg=1 addr=1 on memory[1] = 25 stored 5 in registers[1]; cell 1
\* still holds 25 and registers[0] its 7
C20_Witness ==
    /\ status = "direct"
    /\ Len(executed) = 1
    /\ error = "none"
    /\ cmd_int = from_bytes(W_Sqrt(1, 1, <<0, 0>>))
    /\ state.data_mem[1] = 25
    /\ state.regs[1] = 5
    /\ state.regs[0] = 7

----------------------------------------------------------------------------
(* run_binary_bytes with the default configuration *)

\* the longest program made of the words of DefaultSeqWords
MaxDefaultWords == 2

\* one word per register index of each instruction, with the bits above
\* the fields set; addresses at the ends of the memory, just past it and
\* at the top of the 19-bit field; opcodes outside the instruction set
\* with every other bit set
DefaultWords ==
    { W_LoadConst(1048575, r, <<1>>) : r \in 0..31 }
      \cup { W_ReadMem(r, 65535, <<1, 1>>) : r \in 0..31 }
      \cup { W_WriteMem(65535, r, <<1, 1>>) : r \in 0..31 }
      \cup { W_Sqrt(r, 65535, <<1, 1>>) : r \in 0..31 }
      \cup { W_ReadMem(r, a, <<0, 0>>) : r \in {0, 31}, a \in {0, 65536, 524287} }
      \cup { W_WriteMem(a, r, <<0, 0>>) : r \in {0, 31}, a \in {0, 65536, 524287} }
      \cup { W_Sqrt(r, a, <<0, 0>>) : r \in {0, 31}, a \in {0, 65536, 524287} }
      \cup { RawWord(op, 1048575, 20, 31, 5, <<1>>) : op \in {0, 61, 63} }

\* the words of the longer programs: a value through register 31 and the
\* last cell, a read past the memory, an unknown opcode
DefaultSeqWords ==
    { W_LoadConst(625, 31, <<0>>),
      W_WriteMem(65535, 31, <<0, 0>>),
      W_Sqrt(30, 65535, <<0, 0>>),
      W_ReadMem(0, 65536, <<0, 0>>),
      RawWord(61, 7, 20, 0, 5, <<0>>) }

DefaultBuffers ==
    DefaultWords
      \cup { Flatten(ws) :
               ws \in UNION { [1..n -> DefaultSeqWords] :
                                n \in 0..MaxDefaultWords } }

\* run_binary_bytes(code_bytes): data_mem_size and regs_count left to
\* their defaults
InitDefault ==
    /\ code_bytes \in DefaultBuffers
    /\ regs_count = DEFAULT_REGS
    /\ data_mem_size = DEFAULT_MEM
    /\ state = InitState(regs_count, data_mem_size)
    /\ pc = 0
    /\ cmd_int = <<>>
    /\ status = "running"
    /\ error = "none"
    /\ executed = <<>>
    /\ AsmIdle
    /\ ToIrIdle
    /\ PipeIdle
    /\ DumpIdle
    /\ PairIdle
    /\ GuiIdle

NextDefault == Step \/ Halt

SpecDefault == InitDefault /\ [][NextDefault]_vars

----------------------------------------------------------------------------
(* C21 *)

\* the register field of the word w of opcode op, as section 4.1 places it
RegisterField(op, w) ==
    IF op = 29 THEN IntField(w, 26, 5)
    ELSE IF op = 43 THEN IntField(w, 25, 5)
    ELSE IntField(w, 6, 5)

\* the address field of the word w of the memory instruction op
AddressField(op, w) ==
    IF op = 43 THEN IntField(w, 6, 19) ELSE IntField(w, 11, 19)

\* C21: no register fault under the defaults. With 32 registers and
\* 65536 memory cells, the register field of every fetched word of a
\* known opcode is in 0..31 and indexes an existing register; a run that
\* stops with a fault stops either on a word of unknown opcode, or on a
\* READ_MEM, WRITE_MEM or SQRT whose address field is in
\* 65536 .. 2^19 - 1, a LOAD_CONST never faults, and no other error
\* occurs.
C21_NoRegisterFault ==
    (regs_count = DEFAULT_REGS /\ data_mem_size = DEFAULT_MEM
        /\ (status = "fault" \/ executed # <<>>)) =>
        LET op == IntField(cmd_int, 0, 6)
            reg == RegisterField(op, cmd_int)
            addr == AddressField(op, cmd_int)
        IN  /\ op \in KnownOps => reg \in 0..31 /\ reg \in DOMAIN state.regs
            /\ status = "fault" =>
                  \/ error = "UnknownOpcode" /\ op \notin KnownOps
                  \/ /\ error = "IndexError"
                     /\ op \in {4, 43, 2}
                     /\ addr >= DEFAULT_MEM
                     /\ addr <= 2 ^ 19 - 1
            /\ status # "fault" => error = "none"

\* WRITE_MEM from register 31 to the last cell, bits 30 and 31 of the word
\* set, ran to the end under the defaults
C21_Witness ==
    /\ regs_count = DEFAULT_REGS
    /\ data_mem_size = DEFAULT_MEM
    /\ status = "halted"
    /\ code_bytes = W_WriteMem(65535, 31, <<1, 1>>)
    /\ executed = <<0>>
    /\ IntField(cmd_int, 25, 5) = 31

----------------------------------------------------------------------------
(* C22 *)

\* the thread of worker n has been started and run() has not returned
ThreadRunning(n) == workers[n].pos \in {"started", "emitted"}

\* the result of worker n has not been handled: its run has emitted
\* nothing yet, or a signal of it waits in the main thread's queue
Unhandled(n) ==
    \/ workers[n].pos = "started"
    \/ \E i \in DOMAIN events : events[i].worker = n

\* from the click until the result is handled the button is disabled and
\* _current_worker is the worker
DisabledUntilHandled ==
    \A n \in DOMAIN workers :
        Unhandled(n) => ~assemble_run_btn /\ current_worker = n

\* a run that has come to its end has emitted one signal, finished or
\* error, and a run emits nothing before
OneSignalPerRun ==
    \A n \in DOMAIN workers :
        IF workers[n].pos = "started" THEN workers[n].emitted = <<>>
        ELSE /\ Len(workers[n].emitted) = 1
             /\ workers[n].emitted[1].signal \in {"finished", "error"}

\* a step that takes a signal off the queue (a slot has handled it) leaves
\* the button enabled and _current_worker None
HandlingReenables ==
    [][(events # <<>> /\ events' = Tail(events)) =>
          assemble_run_btn' = TRUE /\ current_worker' = 0]_vars

\* at most one worker's result is unhandled at any time
OneUnhandled ==
    \A m, n \in DOMAIN workers : Unhandled(m) /\ Unhandled(n) => m = n

\* what holds of the run protocol whatever the order of the threads' steps
GuiProtocol ==
    /\ [](DisabledUntilHandled /\ OneSignalPerRun /\ OneUnhandled)
    /\ HandlingReenables

=============================================================================
